---- MODULE Spec2Model ----
(***************************************************************************)
(* Event ingestion and analytics of the auction indexer.                   *)
(*                                                                         *)
(* The chain (head, chain) is the environment.  A sync run                 *)
(* (syncAuctionEvents) is a process with one step per await point; the     *)
(* scheduled trigger and the manual POST /sync trigger are two runners of  *)
(* the same routine.  The relational store is auctions, bids and the       *)
(* sync_status cursor.  The analytics queries are operators over the       *)
(* store.                                                                  *)
(***************************************************************************)
EXTENDS Integers, Sequences, FiniteSets, TLC

VARIABLES
    head,             \* chain head (client.getBlockNumber())
    chain,            \* logs emitted by the auction contract, in chain order
    auctions,         \* table auctions, in insertion order
    bids,             \* table bids, in insertion order
    cursor,           \* sync_status.last_block_number (row id = 1)
    pc,               \* per runner: the await point the run is suspended at
    lastSyncedBlock,  \* per runner: local of syncAuctionEvents
    currentBlock,     \* per runner: local of syncAuctionEvents
    fromBlock,        \* per runner: local of syncAuctionEvents
    toBlock,          \* per runner: local of syncAuctionEvents
    events,           \* per runner: events of the window not yet handled
    outcome,          \* per runner: how the last run ended
    runs,             \* number of runs started
    aborts,           \* number of runs that threw or were stopped
    started,          \* history, per runner: ordinal of its last run
    windowsDone,      \* history, per runner: windows its run has committed
    dropped,          \* history: transaction hashes of events a handler dropped
    settle,           \* the settlement backfill script: its locals and position,
                      \* and (history) whether its last handler call returned
    transfers,        \* table transfers, in insertion order
    nftCursor,        \* nft_sync_status.last_block_number (row id = 1)
    nft,              \* the transfer backfill script: its locals and position,
                      \* and what syncNFTEvents last returned
    call              \* a call of a function on its own: arguments and results

vars == <<head, chain, auctions, bids, cursor, pc, lastSyncedBlock,
          currentBlock, fromBlock, toBlock, events, outcome, runs, aborts,
          started, windowsDone, dropped, settle, transfers, nftCursor, nft, call>>

chainVars == <<head, chain>>
storeVars == <<auctions, bids, cursor>>
localVars == <<lastSyncedBlock, currentBlock, fromBlock, toBlock, events>>
histVars == <<started, windowsDone, dropped>>
auxVars == <<settle, transfers, nftCursor, nft, call>>

----------------------------------------------------------------------------
(* Bounds of the model *)

MaxHead == 502         \* the chain head never exceeds this height
MaxEvents == 2         \* logs on the chain
MaxRuns == 2           \* runs started
MaxAborts == 1         \* runs that fail or are stopped
MaxStatsEvents == 4    \* logs on the chain (analytics specification)

(* Program constants *)

batchSize == 500
Bytes20Chars == 40
Bytes32Chars == 64
CentDivisor == 10000

----------------------------------------------------------------------------
(* Values *)

Runners == {"scheduled", "manual"}

\* SQL NULL; every stored number is non-negative
NULL == -1

\* SQL NULL in a column of addresses
NULL_ADDRESS == [account |-> "NULL", case |-> "lower"]

Range(s) == {s[i] : i \in 1..Len(s)}

Min(a, b) == IF a < b THEN a ELSE b

RECURSIVE Sum(_, _)
Sum(f, S) ==
    IF S = {} THEN 0
    ELSE LET x == CHOOSE y \in S : TRUE IN f[x] + Sum(f, S \ {x})

SetMax(S) == CHOOSE x \in S : \A y \in S : y <= x

(* A string is the sequence of its runs of equal characters:            *)
(* "0x00aaa" is <<[ch |-> "0", n |-> 1], [ch |-> "x", n |-> 1],           *)
(* [ch |-> "0", n |-> 2], [ch |-> "a", n |-> 3]>>.                         *)

Chars(c, n) == IF n = 0 THEN <<>> ELSE <<[ch |-> c, n |-> n]>>

StrLen(s) == Sum([i \in 1..Len(s) |-> s[i].n], 1..Len(s))

\* s + t
Cat(s, t) ==
    IF s = <<>> THEN t
    ELSE IF t = <<>> THEN s
    ELSE IF s[Len(s)].ch = t[1].ch
         THEN SubSeq(s, 1, Len(s) - 1) \o <<[ch |-> t[1].ch, n |-> s[Len(s)].n + t[1].n]>> \o Tail(t)
         ELSE s \o t

RECURSIVE sliceFrom(_, _)
\* String.prototype.slice(k) for k >= 0: the string without its first k characters
sliceFrom(s, k) ==
    IF k = 0 \/ s = <<>> THEN s
    ELSE IF s[1].n <= k THEN sliceFrom(Tail(s), k - s[1].n)
    ELSE <<[ch |-> s[1].ch, n |-> s[1].n - k]>> \o Tail(s)

Prefix0x == Cat(Chars("0", 1), Chars("x", 1))

\* bytes32 content reference as emitted on chain: a 20-byte cast hash
\* left-padded with zeros
Bytes32Hash(c) == Cat(Prefix0x, Cat(Chars("0", Bytes32Chars - Bytes20Chars), Chars(c, Bytes20Chars)))

CastHashes == {Bytes32Hash("a"), Bytes32Hash("b")}

Fids == {1, 2}

OneDollar == 1000000

Amounts == {OneDollar, 2 * OneDollar}

\* castHash.startsWith('0x')
startsWith0x(s) ==
    /\ Len(s) >= 2
    /\ s[1] = [ch |-> "0", n |-> 1]
    /\ s[2].ch = "x"

\* String.prototype.slice(-k): the last k characters, or the whole string
sliceLast(s, k) == IF StrLen(s) <= k THEN s ELSE sliceFrom(s, StrLen(s) - k)

formatCastHash(castHash) ==
    LET cleanHash == IF startsWith0x(castHash) THEN sliceFrom(castHash, 2) ELSE castHash
        bytes20 == sliceLast(cleanHash, Bytes20Chars)
    IN Cat(Prefix0x, bytes20)

\* String.prototype.padStart(k, '0')
padStart0(s, k) == IF StrLen(s) >= k THEN s ELSE Cat(Chars("0", k - StrLen(s)), s)

\* String.prototype.padEnd(k, '0')
padEnd0(s, k) == IF StrLen(s) >= k THEN s ELSE Cat(s, Chars("0", k - StrLen(s)))

\* the padding put after the hash
padCastHashAtEnd(castHash) ==
    LET cleanHash == IF startsWith0x(castHash) THEN sliceFrom(castHash, 2) ELSE castHash
        padded == padEnd0(cleanHash, Bytes32Chars)
    IN Cat(Prefix0x, padded)

padCastHash(castHash) ==
    LET cleanHash == IF startsWith0x(castHash) THEN sliceFrom(castHash, 2) ELSE castHash
        padded == padStart0(cleanHash, Bytes32Chars)
    IN Cat(Prefix0x, padded)

\* Math.round(Number(amount) / 10000) for a non-negative amount; 0 for NULL
usdcToCents(amount) ==
    IF amount = NULL \/ amount = 0 THEN 0
    ELSE (2 * amount + CentDivisor) \div (2 * CentDivisor)

\* block.timestamp of a block: strictly increasing with the height
BlockTimestamp(blockNumber) == blockNumber

----------------------------------------------------------------------------
(* Initial state: empty tables, sync_status row (1, 0), no run in flight *)

\* no function is called on its own
NoCall == [fn |-> "none"]

InitProgram ==
    /\ head = 0
    /\ chain = <<>>
    /\ auctions = <<>>
    /\ bids = <<>>
    /\ cursor = 0
    /\ pc = [r \in Runners |-> "idle"]
    /\ lastSyncedBlock = [r \in Runners |-> 0]
    /\ currentBlock = [r \in Runners |-> 0]
    /\ fromBlock = [r \in Runners |-> 0]
    /\ toBlock = [r \in Runners |-> 0]
    /\ events = [r \in Runners |-> <<>>]
    /\ outcome = [r \in Runners |-> "none"]
    /\ runs = 0
    /\ aborts = 0
    /\ started = [r \in Runners |-> 0]
    /\ windowsDone = [r \in Runners |-> 0]
    /\ dropped = {}
    /\ settle = [pc |-> "idle", fromBlock |-> 0, toBlock |-> 0, currentBlock |-> 0,
                 logs |-> <<>>, runs |-> 0, lastOk |-> TRUE]
    /\ transfers = <<>>
    /\ nftCursor = 0
    /\ nft = [pc |-> "idle", fromBlock |-> 0, toBlock |-> 0, currentBlock |-> 0,
              events |-> <<>>, runs |-> 0,
              synced |-> [eventsProcessed |-> 0, lastBlock |-> 0]]

Init == InitProgram /\ call = NoCall

----------------------------------------------------------------------------
(* The chain *)

StartedCasts == {chain[i].castHash : i \in {j \in 1..Len(chain) : chain[j].eventName = "AuctionStarted"}}

\* the logs the contract can emit next: an auction start, or a bid on a
\* started auction
StartLogs(casts, fids) ==
    [eventName : {"AuctionStarted"}, castHash : casts, fid : fids, amount : {0}]

BidLogs(fids, amounts) ==
    [eventName : {"BidPlaced"}, castHash : StartedCasts, fid : fids, amount : amounts]

\* a block is mined d above the head; it carries the log l
MineLog(d, l, maxHead, maxEvents) ==
    /\ head + d <= maxHead
    /\ Len(chain) < maxEvents
    /\ head' = head + d
    /\ chain' = Append(chain, [blockNumber |-> head + d,
                               transactionHash |-> Len(chain) + 1,
                               logIndex |-> 0,
                               eventName |-> l.eventName,
                               castHash |-> l.castHash,
                               fid |-> l.fid,
                               amount |-> l.amount])
    /\ UNCHANGED <<auxVars, storeVars, pc, localVars, outcome, runs, aborts, histVars>>

\* d blocks without a log of the contract are mined
MineEmpty(d, maxHead) ==
    /\ head + d <= maxHead
    /\ head' = head + d
    /\ UNCHANGED <<auxVars, chain, storeVars, pc, localVars, outcome, runs, aborts, histVars>>

----------------------------------------------------------------------------
(* Chain log fetcher *)

Whitelist == {"AuctionStarted", "BidPlaced"}

RECURSIVE SelectLogs(_, _, _, _)
SelectLogs(logs, i, lo, hi) ==
    IF i > Len(logs) THEN <<>>
    ELSE IF /\ logs[i].blockNumber >= lo
            /\ logs[i].blockNumber <= hi
            /\ logs[i].eventName \in Whitelist
         THEN <<logs[i]>> \o SelectLogs(logs, i + 1, lo, hi)
         ELSE SelectLogs(logs, i + 1, lo, hi)

\* decodeEventLog returns the event, or throws on a log whose data and
\* topics do not fit the ABI
Decodes(log) == "malformed" \notin DOMAIN log

\* a fetch that gives up the batch when one log fails to decode
getContractEventsAllOrNothing(lo, hi) ==
    LET logs == SelectLogs(chain, 1, lo, hi) IN
    IF \E i \in 1..Len(logs) : ~Decodes(logs[i]) THEN <<>> ELSE logs

\* logs.map(log => { try { decode } catch { return null } }).filter(Boolean)
getContractEvents(lo, hi) == SelectSeq(SelectLogs(chain, 1, lo, hi), Decodes)

----------------------------------------------------------------------------
(* Event projector *)

AuctionIdsOf(tbl, castHash) == {tbl[i].id : i \in {j \in 1..Len(tbl) : tbl[j].cast_hash = castHash}}

\* the insert without its ON CONFLICT clause
InsertAuctionAlways(tbl, event) ==
    Append(tbl, [id |-> Len(tbl) + 1,
                 cast_hash |-> formatCastHash(event.castHash),
                 creator_fid |-> event.fid,
                 transaction_hash |-> event.transactionHash,
                 block_number |-> event.blockNumber,
                 state |-> 1,
                 winner_address |-> NULL_ADDRESS,
                 winner_fid |-> NULL,
                 winning_bid |-> NULL])

\* INSERT INTO auctions ... ON CONFLICT (cast_hash) DO NOTHING
InsertAuction(tbl, event) ==
    LET hash == formatCastHash(event.castHash) IN
    IF AuctionIdsOf(tbl, hash) # {} THEN tbl
    ELSE Append(tbl, [id |-> Len(tbl) + 1,
                      cast_hash |-> hash,
                      creator_fid |-> event.fid,
                      transaction_hash |-> event.transactionHash,
                      block_number |-> event.blockNumber,
                      state |-> 1,
                      winner_address |-> NULL_ADDRESS,
                      winner_fid |-> NULL,
                      winning_bid |-> NULL])

\* INSERT INTO bids ... : the table has no key besides the serial id
InsertBid(tbl, auctionId, event) ==
    Append(tbl, [id |-> Len(tbl) + 1,
                 auction_id |-> auctionId,
                 cast_hash |-> formatCastHash(event.castHash),
                 bidder_fid |-> event.fid,
                 amount |-> event.amount,
                 transaction_hash |-> event.transactionHash,
                 block_number |-> event.blockNumber,
                 timestamp |-> BlockTimestamp(event.blockNumber)])

\* the insert attempted whether or not the read-through returned the auction
processAuctionStartedEventUnguarded(event, readOk) ==
    /\ auctions' = InsertAuction(auctions, event)
    /\ dropped' = IF readOk THEN dropped ELSE dropped \cup {event.transactionHash}
    /\ UNCHANGED bids

\* readOk: getAuctionData returned the auction and not null
processAuctionStartedEvent(event, readOk) ==
    /\ auctions' = IF readOk THEN InsertAuction(auctions, event) ELSE auctions
    /\ dropped' = IF readOk THEN dropped ELSE dropped \cup {event.transactionHash}
    /\ UNCHANGED bids

\* the insert without the lookup result tested: an unmatched bid is stored
\* with no auction
processBidPlacedEventUnmatched(event) ==
    LET auctionResult == AuctionIdsOf(auctions, formatCastHash(event.castHash)) IN
    /\ bids' = InsertBid(bids, IF auctionResult = {} THEN NULL
                               ELSE CHOOSE id \in auctionResult : TRUE, event)
    /\ dropped' = IF auctionResult = {} THEN dropped \cup {event.transactionHash} ELSE dropped
    /\ UNCHANGED auctions

processBidPlacedEvent(event) ==
    LET auctionResult == AuctionIdsOf(auctions, formatCastHash(event.castHash)) IN
    /\ bids' = IF auctionResult = {} THEN bids
               ELSE InsertBid(bids, CHOOSE id \in auctionResult : TRUE, event)
    /\ dropped' = IF auctionResult = {} THEN dropped \cup {event.transactionHash} ELSE dropped
    /\ UNCHANGED auctions

----------------------------------------------------------------------------
(* Sync cursor store *)

getLastSyncedBlock == cursor

updateLastSyncedBlock(blockNumber) == cursor' = blockNumber

----------------------------------------------------------------------------
(* syncAuctionEvents, one action per await point *)

\* the loop reading the chain head anew at every test
LoopBoundLive(r) == head

\* the snapshot the window loop runs up to
LoopBound(r) == currentBlock[r]

\* the window end without the cap at the snapshot
WindowEndUncapped(r) == fromBlock[r] + batchSize - 1

\* const toBlock = fromBlock + batchSize - 1n > currentBlock ? currentBlock : ...
WindowEnd(r) ==
    IF fromBlock[r] + batchSize - 1 > LoopBound(r) THEN LoopBound(r)
    ELSE fromBlock[r] + batchSize - 1

\* a trigger starts a run: await getLastSyncedBlock(env)
StartRun(r) ==
    /\ pc[r] = "idle"
    /\ runs < MaxRuns
    /\ runs' = runs + 1
    /\ lastSyncedBlock' = [lastSyncedBlock EXCEPT ![r] = getLastSyncedBlock]
    /\ currentBlock' = [currentBlock EXCEPT ![r] = 0]
    /\ fromBlock' = [fromBlock EXCEPT ![r] = 0]
    /\ toBlock' = [toBlock EXCEPT ![r] = 0]
    /\ events' = [events EXCEPT ![r] = <<>>]
    /\ pc' = [pc EXCEPT ![r] = "getBlockNumber"]
    /\ outcome' = [outcome EXCEPT ![r] = "running"]
    /\ started' = [started EXCEPT ![r] = runs + 1]
    /\ windowsDone' = [windowsDone EXCEPT ![r] = 0]
    /\ UNCHANGED <<auxVars, chainVars, storeVars, aborts, dropped>>

\* await client.getBlockNumber(), the up-to-date test and the loop entry
GetBlockNumber(r) ==
    /\ pc[r] = "getBlockNumber"
    /\ currentBlock' = [currentBlock EXCEPT ![r] = head]
    /\ IF lastSyncedBlock[r] >= head
       THEN /\ pc' = [pc EXCEPT ![r] = "idle"]
            /\ outcome' = [outcome EXCEPT ![r] = "done"]
            /\ UNCHANGED fromBlock
       ELSE /\ pc' = [pc EXCEPT ![r] = "getContractEvents"]
            /\ fromBlock' = [fromBlock EXCEPT ![r] = lastSyncedBlock[r] + 1]
            /\ UNCHANGED outcome
    /\ UNCHANGED <<auxVars, chainVars, storeVars, lastSyncedBlock, toBlock, events, runs, aborts, histVars>>

\* the cursor written when the window is fetched, before its events are handled
FetchWindowCommitsFirst(r) ==
    /\ pc[r] = "getContractEvents"
    /\ toBlock' = [toBlock EXCEPT ![r] = WindowEnd(r)]
    /\ events' = [events EXCEPT ![r] = getContractEvents(fromBlock[r], WindowEnd(r))]
    /\ pc' = [pc EXCEPT ![r] = IF getContractEvents(fromBlock[r], WindowEnd(r)) = <<>>
                                THEN "updateLastSyncedBlock" ELSE "processEvent"]
    /\ cursor' = WindowEnd(r)
    /\ UNCHANGED <<auxVars, chainVars, auctions, bids, lastSyncedBlock, currentBlock, fromBlock, outcome, runs, aborts, histVars>>

\* await getContractEvents(client, fromBlock, toBlock)
FetchWindow(r) ==
    /\ pc[r] = "getContractEvents"
    /\ toBlock' = [toBlock EXCEPT ![r] = WindowEnd(r)]
    /\ events' = [events EXCEPT ![r] = getContractEvents(fromBlock[r], WindowEnd(r))]
    /\ pc' = [pc EXCEPT ![r] = IF getContractEvents(fromBlock[r], WindowEnd(r)) = <<>>
                                THEN "updateLastSyncedBlock" ELSE "processEvent"]
    /\ UNCHANGED <<auxVars, chainVars, storeVars, lastSyncedBlock, currentBlock, fromBlock, outcome, runs, aborts, histVars>>

\* one iteration of for (const event of events)
ProcessEvent(r) ==
    /\ pc[r] = "processEvent"
    /\ events[r] # <<>>
    /\ LET event == Head(events[r]) IN
         \/ /\ event.eventName = "AuctionStarted"
            /\ \E readOk \in BOOLEAN : processAuctionStartedEvent(event, readOk)
         \/ /\ event.eventName = "BidPlaced"
            /\ processBidPlacedEvent(event)
    /\ events' = [events EXCEPT ![r] = Tail(events[r])]
    /\ pc' = [pc EXCEPT ![r] = IF Tail(events[r]) = <<>>
                                THEN "updateLastSyncedBlock" ELSE "processEvent"]
    /\ UNCHANGED <<auxVars, chainVars, cursor, lastSyncedBlock, currentBlock, fromBlock, toBlock, outcome, runs, aborts,
                   started, windowsDone>>

\* the cursor update inside the event loop
CommitWindowDuringProjection(r) ==
    /\ pc[r] \in {"processEvent", "updateLastSyncedBlock"}
    /\ updateLastSyncedBlock(toBlock[r])
    /\ fromBlock' = [fromBlock EXCEPT ![r] = toBlock[r] + 1]
    /\ IF toBlock[r] + 1 <= LoopBound(r)
       THEN /\ pc' = [pc EXCEPT ![r] = "getContractEvents"]
            /\ UNCHANGED outcome
       ELSE /\ pc' = [pc EXCEPT ![r] = "idle"]
            /\ outcome' = [outcome EXCEPT ![r] = "done"]
    /\ windowsDone' = [windowsDone EXCEPT ![r] = windowsDone[r] + 1]
    /\ UNCHANGED <<auxVars, chainVars, auctions, bids, lastSyncedBlock, currentBlock, toBlock, events, runs, aborts,
                   started, dropped>>

\* await updateLastSyncedBlock(env, toBlock); fromBlock = toBlock + 1n;
\* and the loop test
CommitWindow(r) ==
    /\ pc[r] = "updateLastSyncedBlock"
    /\ updateLastSyncedBlock(toBlock[r])
    /\ fromBlock' = [fromBlock EXCEPT ![r] = toBlock[r] + 1]
    /\ IF toBlock[r] + 1 <= LoopBound(r)
       THEN /\ pc' = [pc EXCEPT ![r] = "getContractEvents"]
            /\ UNCHANGED outcome
       ELSE /\ pc' = [pc EXCEPT ![r] = "idle"]
            /\ outcome' = [outcome EXCEPT ![r] = "done"]
    /\ windowsDone' = [windowsDone EXCEPT ![r] = windowsDone[r] + 1]
    /\ UNCHANGED <<auxVars, chainVars, auctions, bids, lastSyncedBlock, currentBlock, toBlock, events, runs, aborts,
                   started, dropped>>

\* the pending outbound call throws (RPC or store unavailable) or the worker
\* is stopped: the run ends where it is
Abort(r) ==
    /\ pc[r] # "idle"
    /\ aborts < MaxAborts
    /\ aborts' = aborts + 1
    /\ pc' = [pc EXCEPT ![r] = "idle"]
    /\ outcome' = [outcome EXCEPT ![r] = "failed"]
    /\ UNCHANGED <<auxVars, chainVars, storeVars, localVars, runs, histVars>>

RunStep(r) ==
    \/ StartRun(r)
    \/ GetBlockNumber(r)
    \/ FetchWindow(r)
    \/ ProcessEvent(r)
    \/ CommitWindow(r)

----------------------------------------------------------------------------
(* Specifications *)

OneCast == {Bytes32Hash("a")}

\* one cast, one bidder and one amount (the runs look at none of them); the
\* cast may be auctioned again; a stretch of batchSize blocks without a log
\* puts logs in different windows
Mine ==
    \/ \E l \in StartLogs(OneCast, {1}) \cup BidLogs({1}, {OneDollar}) :
           MineLog(1, l, MaxHead, MaxEvents)
    \/ MineEmpty(batchSize, MaxHead)

\* the scheduled trigger and the manual trigger, not mutually exclusive;
\* every outbound call returns
Next ==
    \/ Mine
    \/ \E r \in Runners : RunStep(r)

Spec == Init /\ [][Next]_vars

\* a trigger fires while no run is in flight
StartRunAlone(r) ==
    /\ \A q \in Runners : pc[q] = "idle"
    /\ StartRun(r)

RunStepSeq(r) ==
    \/ StartRunAlone(r)
    \/ GetBlockNumber(r)
    \/ FetchWindow(r)
    \/ ProcessEvent(r)
    \/ CommitWindow(r)

\* runs of either trigger that follow one another, and may fail
NextSeq ==
    \/ Mine
    \/ \E r \in Runners : RunStepSeq(r)
    \/ \E r \in Runners : Abort(r)

SpecSeq == Init /\ [][NextSeq]_vars

\* the store the analytics read: bids of several bidders and amounts on
\* auctions of different casts, projected by runs of one trigger. A run reads
\* no block above its snapshot: the blocks are mined between the runs.
MineStats ==
    /\ pc["scheduled"] = "idle"
    /\ \E l \in StartLogs(CastHashes \ StartedCasts, {1}) \cup BidLogs(Fids, Amounts) :
           MineLog(1, l, MaxStatsEvents, MaxStatsEvents)

NextStats ==
    \/ MineStats
    \/ RunStep("scheduled")

SpecStats == Init /\ [][NextStats]_vars

\* one trigger, every outbound call returns: a run that has started goes on
LoopSteps(r) ==
    \/ GetBlockNumber(r)
    \/ FetchWindow(r)
    \/ ProcessEvent(r)
    \/ CommitWindow(r)

NextLive ==
    \/ Mine
    \/ StartRun("scheduled")
    \/ LoopSteps("scheduled")

SpecLive == Init /\ [][NextLive]_vars /\ WF_vars(LoopSteps("scheduled"))


----------------------------------------------------------------------------
(* Addresses: an account and the letter case its hex digits are written in *)

ZERO_ADDRESS == [account |-> "zero", case |-> "lower"]

\* the literal in the code is written in mixed case
AUCTION_CONTRACT == [account |-> "auction", case |-> "mixed"]

UserAccounts == {"u1", "u2"}

\* the zero address has no letters: it is written in one way
AddressesOf(accounts) ==
    [account : accounts \ {"zero"}, case : {"lower", "mixed", "upper"}]
        \cup (IF "zero" \in accounts THEN {ZERO_ADDRESS} ELSE {})

toLowerCase(address) == [address EXCEPT !.case = "lower"]

----------------------------------------------------------------------------
(* Settlement backfill script: scans AuctionSettled logs and updates auctions *)

BATCH_SIZE == 500
SettledState == 3

\* winner, winner id and amount a settlement log can carry
SettleOutcomes ==
    {[winner |-> [account |-> "u1", case |-> "mixed"], fid |-> 1, amount |-> OneDollar],
     [winner |-> [account |-> "u2", case |-> "mixed"], fid |-> 2, amount |-> 2 * OneDollar]}

\* a block with an AuctionSettled log of a started auction is mined
MineSettled(maxHead, maxEvents) ==
    /\ head + 1 <= maxHead
    /\ Len(chain) < maxEvents
    /\ \E c \in StartedCasts : \E o \in SettleOutcomes :
          chain' = Append(chain, [blockNumber |-> head + 1,
                                  transactionHash |-> Len(chain) + 1,
                                  logIndex |-> 0,
                                  eventName |-> "AuctionSettled",
                                  castHash |-> c,
                                  winner |-> o.winner,
                                  fid |-> o.fid,
                                  amount |-> o.amount])
    /\ head' = head + 1
    /\ UNCHANGED <<storeVars, pc, localVars, outcome, runs, aborts, histVars, auxVars>>

RECURSIVE SelectSettledLogs(_, _, _, _)
SelectSettledLogs(logs, i, lo, hi) ==
    IF i > Len(logs) THEN <<>>
    ELSE IF /\ logs[i].blockNumber >= lo
            /\ logs[i].blockNumber <= hi
            /\ logs[i].eventName = "AuctionSettled"
         THEN <<logs[i]>> \o SelectSettledLogs(logs, i + 1, lo, hi)
         ELSE SelectSettledLogs(logs, i + 1, lo, hi)

\* SELECT MIN(block_number) FROM auctions WHERE block_number > 0, or 0
MinAuctionBlock ==
    LET blocks == {auctions[i].block_number : i \in {j \in 1..Len(auctions) : auctions[j].block_number > 0}} IN
    IF blocks = {} THEN 0 ELSE CHOOSE b \in blocks : \A c \in blocks : b <= c

\* the UPDATE adding the amount to the stored one
SettleAuctionAccumulating(tbl, event) ==
    [i \in 1..Len(tbl) |->
        IF tbl[i].cast_hash = formatCastHash(event.castHash)
        THEN [tbl[i] EXCEPT !.state = SettledState,
                            !.winner_address = event.winner,
                            !.winner_fid = event.fid,
                            !.winning_bid = IF @ = NULL THEN event.amount ELSE @ + event.amount]
        ELSE tbl[i]]

\* the UPDATE without SET state = 3
SettleAuctionWinnerOnly(tbl, event) ==
    [i \in 1..Len(tbl) |->
        IF tbl[i].cast_hash = formatCastHash(event.castHash)
        THEN [tbl[i] EXCEPT !.winner_address = event.winner,
                            !.winner_fid = event.fid,
                            !.winning_bid = event.amount]
        ELSE tbl[i]]

\* UPDATE auctions SET state = 3, winner_address, winner_fid, winning_bid
\* WHERE cast_hash = $1
SettleAuction(tbl, event) ==
    [i \in 1..Len(tbl) |->
        IF tbl[i].cast_hash = formatCastHash(event.castHash)
        THEN [tbl[i] EXCEPT !.state = SettledState,
                            !.winner_address = event.winner,
                            !.winner_fid = event.fid,
                            !.winning_bid = event.amount]
        ELSE tbl[i]]

\* ok: the query returned; otherwise it threw and the per-log catch took it
processAuctionSettledEvent(event, ok) ==
    auctions' = IF ok THEN SettleAuction(auctions, event) ELSE auctions

SettleWindowEnd ==
    IF settle.fromBlock + BATCH_SIZE - 1 > settle.currentBlock THEN settle.currentBlock
    ELSE settle.fromBlock + BATCH_SIZE - 1

\* the script has ended: its locals are gone
SettleEnded(ok) ==
    [pc |-> "idle", fromBlock |-> 0, toBlock |-> 0, currentBlock |-> 0, logs |-> <<>>,
     runs |-> settle.runs, lastOk |-> ok]

\* fromBlock = toBlock + 1n and the loop test
SettleNextWindow(to, ok) ==
    IF to + 1 <= settle.currentBlock
    THEN [settle EXCEPT !.logs = <<>>, !.toBlock = to, !.fromBlock = to + 1, !.pc = "getLogs",
                        !.lastOk = ok]
    ELSE SettleEnded(ok)

\* the script starts: the query for the earliest auction block
SettleStart ==
    /\ settle.pc = "idle"
    /\ settle.runs < MaxRuns
    /\ settle' = [pc |-> "getBlockNumber", fromBlock |-> MinAuctionBlock, toBlock |-> 0,
                  currentBlock |-> 0, logs |-> <<>>, runs |-> settle.runs + 1,
                  lastOk |-> TRUE]
    /\ UNCHANGED <<chainVars, storeVars, pc, localVars, outcome, runs, aborts, histVars,
                   transfers, nftCursor, nft, call>>

\* await viemClient.getBlockNumber() and the loop entry
SettleGetBlockNumber ==
    /\ settle.pc = "getBlockNumber"
    /\ settle' = IF settle.fromBlock <= head
                 THEN [settle EXCEPT !.currentBlock = head, !.pc = "getLogs"]
                 ELSE SettleEnded(TRUE)
    /\ UNCHANGED <<chainVars, storeVars, pc, localVars, outcome, runs, aborts, histVars,
                   transfers, nftCursor, nft, call>>

\* await viemClient.getLogs({events: [AUCTION_SETTLED_ABI], fromBlock, toBlock})
SettleGetLogs ==
    /\ settle.pc = "getLogs"
    /\ LET to == SettleWindowEnd
           logs == SelectSettledLogs(chain, 1, settle.fromBlock, to)
       IN settle' = IF logs = <<>>
                    THEN SettleNextWindow(to, TRUE)
                    ELSE [settle EXCEPT !.toBlock = to, !.logs = logs, !.pc = "process",
                                        !.lastOk = TRUE]
    /\ UNCHANGED <<chainVars, storeVars, pc, localVars, outcome, runs, aborts, histVars,
                   transfers, nftCursor, nft, call>>

\* one iteration of for (const log of logs), with its try and catch
SettleProcess ==
    /\ settle.pc = "process"
    /\ settle.logs # <<>>
    /\ \E ok \in BOOLEAN :
          /\ processAuctionSettledEvent(Head(settle.logs), ok)
          /\ settle' = IF Tail(settle.logs) = <<>>
                       THEN SettleNextWindow(settle.toBlock, ok)
                       ELSE [settle EXCEPT !.logs = Tail(settle.logs), !.lastOk = ok]
    /\ UNCHANGED <<chainVars, bids, cursor, pc, localVars, outcome, runs, aborts, histVars,
                   transfers, nftCursor, nft, call>>

\* getLogs threw: the outer catch breaks out of the loop
SettleBreak ==
    /\ settle.pc = "getLogs"
    /\ settle' = SettleEnded(TRUE)
    /\ UNCHANGED <<chainVars, storeVars, pc, localVars, outcome, runs, aborts, histVars,
                   transfers, nftCursor, nft, call>>

SettleStep ==
    \/ SettleStart
    \/ SettleGetBlockNumber
    \/ SettleGetLogs
    \/ SettleProcess
    \/ SettleBreak

MaxSettleEvents == 3

\* auctions started, bid on and settled; the scheduled sync and
\* the settlement backfill script run side by side. Neither reads a block
\* above its snapshot of the head: the blocks are mined while both are idle.
MineSettle ==
    /\ pc["scheduled"] = "idle"
    /\ settle.pc = "idle"
    /\ \/ \E l \in StartLogs(CastHashes \ StartedCasts, {1}) \cup BidLogs({1}, {OneDollar}) :
              MineLog(1, l, MaxHead, MaxSettleEvents)
       \/ MineSettled(MaxHead, MaxSettleEvents)
       \/ MineEmpty(batchSize, MaxHead)

NextSettle ==
    \/ MineSettle
    \/ RunStep("scheduled")
    \/ SettleStep

SpecSettle == Init /\ [][NextSettle]_vars

----------------------------------------------------------------------------
(* NFT transfers: processTransferEvent and the transfer backfill script *)

MaxTransfers == 2

\* blocks are counted from the one the NFT contract was deployed at
NFT_CONTRACT_START_BLOCK == 1

\* a Transfer log as parseTransferEvent presents it
TransferLog(from, to, token) ==
    [blockNumber |-> head + 1, transactionHash |-> Len(chain) + 1, logIndex |-> 0,
     eventName |-> "Transfer", fromAddress |-> from, toAddress |-> to, tokenId |-> token]

\* the parties of the transfers mined, as the chain client writes them:
\* mints, burns, auction custody, users
TransferParties ==
    {ZERO_ADDRESS, AUCTION_CONTRACT} \cup [account : UserAccounts, case : {"mixed"}]

\* the classifier comparing the event's addresses as they are written
isP2PCaseSensitive(data) ==
    LET mint == IF data.fromAddress = toLowerCase(ZERO_ADDRESS) THEN FALSE ELSE TRUE
        burn == IF data.toAddress = toLowerCase(ZERO_ADDRESS) THEN FALSE ELSE mint
        fromAuction == IF data.fromAddress = toLowerCase(AUCTION_CONTRACT) THEN FALSE ELSE burn
    IN IF data.toAddress = toLowerCase(AUCTION_CONTRACT) THEN FALSE ELSE fromAuction

\* let isP2P = true and the four tests of processTransferEvent (sync.js)
isP2P(data) ==
    LET mint == IF toLowerCase(data.fromAddress) = toLowerCase(ZERO_ADDRESS) THEN FALSE ELSE TRUE
        burn == IF toLowerCase(data.toAddress) = toLowerCase(ZERO_ADDRESS) THEN FALSE ELSE mint
        fromAuction == IF toLowerCase(data.fromAddress) = toLowerCase(AUCTION_CONTRACT)
                       THEN FALSE ELSE burn
    IN IF toLowerCase(data.toAddress) = toLowerCase(AUCTION_CONTRACT) THEN FALSE ELSE fromAuction

\* the same four tests in processTransferEvent (backfill-transfers.js)
isP2PBackfill(data) ==
    LET mint == IF toLowerCase(data.fromAddress) = toLowerCase(ZERO_ADDRESS) THEN FALSE ELSE TRUE
        burn == IF toLowerCase(data.toAddress) = toLowerCase(ZERO_ADDRESS) THEN FALSE ELSE mint
        fromAuction == IF toLowerCase(data.fromAddress) = toLowerCase(AUCTION_CONTRACT)
                       THEN FALSE ELSE burn
    IN IF toLowerCase(data.toAddress) = toLowerCase(AUCTION_CONTRACT) THEN FALSE ELSE fromAuction

\* INSERT INTO transfers ... ON CONFLICT (transaction_hash, token_id) DO NOTHING
InsertTransfer(tbl, data) ==
    IF \E i \in 1..Len(tbl) : /\ tbl[i].transaction_hash = data.transactionHash
                              /\ tbl[i].token_id = data.tokenId
    THEN tbl
    ELSE Append(tbl, [id |-> Len(tbl) + 1,
                      from_address |-> data.fromAddress,
                      to_address |-> data.toAddress,
                      token_id |-> data.tokenId,
                      transaction_hash |-> data.transactionHash,
                      block_number |-> data.blockNumber,
                      is_p2p |-> TRUE])

\* the handler without its early return for a transfer that is not P2P
processTransferEventUnfiltered(data) ==
    transfers' = InsertTransfer(transfers, data)

\* processTransferEvent of the backfill script
processTransferEvent(data) ==
    transfers' = IF ~isP2PBackfill(data) THEN transfers ELSE InsertTransfer(transfers, data)

RECURSIVE getNFTTransferEvents(_, _, _, _)
getNFTTransferEvents(logs, i, lo, hi) ==
    IF i > Len(logs) THEN <<>>
    ELSE IF /\ logs[i].blockNumber >= lo
            /\ logs[i].blockNumber <= hi
            /\ logs[i].eventName = "Transfer"
         THEN <<logs[i]>> \o getNFTTransferEvents(logs, i + 1, lo, hi)
         ELSE getNFTTransferEvents(logs, i + 1, lo, hi)

\* a block with one Transfer log of the NFT contract is mined
MineTransfer ==
    /\ nft.pc = "idle"
    /\ Len(chain) < MaxTransfers
    /\ \E from \in TransferParties : \E to \in TransferParties :
          chain' = Append(chain, TransferLog(from, to, 1))
    /\ head' = head + 1
    /\ UNCHANGED <<storeVars, pc, localVars, outcome, runs, aborts, histVars, auxVars>>

NftWindowEnd ==
    IF nft.fromBlock + BATCH_SIZE - 1 > nft.currentBlock THEN nft.currentBlock
    ELSE nft.fromBlock + BATCH_SIZE - 1

\* the script has ended: its locals are gone
NftEnded ==
    [nft EXCEPT !.pc = "idle", !.fromBlock = 0, !.toBlock = 0, !.currentBlock = 0,
                !.events = <<>>]

\* the script starts: getLastNFTSyncedBlock, and the block it will start from
NftStart ==
    /\ nft.pc = "idle"
    /\ nft.runs < MaxRuns
    /\ nft' = [nft EXCEPT !.pc = "getBlockNumber",
                          !.fromBlock = IF nftCursor > 0 THEN nftCursor + 1
                                        ELSE NFT_CONTRACT_START_BLOCK,
                          !.runs = @ + 1]
    /\ UNCHANGED <<chainVars, storeVars, pc, localVars, outcome, runs, aborts, histVars,
                   settle, transfers, nftCursor, call>>

\* await viemClient.getBlockNumber() and the loop entry
NftGetBlockNumber ==
    /\ nft.pc = "getBlockNumber"
    /\ nft' = IF nft.fromBlock <= head
              THEN [nft EXCEPT !.currentBlock = head, !.pc = "getEvents"]
              ELSE NftEnded
    /\ UNCHANGED <<chainVars, storeVars, pc, localVars, outcome, runs, aborts, histVars,
                   settle, transfers, nftCursor, call>>

\* await getNFTTransferEvents(viemClient, fromBlock, toBlock)
NftGetEvents ==
    /\ nft.pc = "getEvents"
    /\ LET to == NftWindowEnd
           found == getNFTTransferEvents(chain, 1, nft.fromBlock, to)
       IN nft' = [nft EXCEPT !.toBlock = to, !.events = found,
                             !.pc = IF found = <<>> THEN "update" ELSE "process"]
    /\ UNCHANGED <<chainVars, storeVars, pc, localVars, outcome, runs, aborts, histVars,
                   settle, transfers, nftCursor, call>>

\* one iteration of for (const event of events)
NftProcess ==
    /\ nft.pc = "process"
    /\ nft.events # <<>>
    /\ processTransferEvent(Head(nft.events))
    /\ nft' = [nft EXCEPT !.events = Tail(nft.events),
                          !.pc = IF Tail(nft.events) = <<>> THEN "update" ELSE "process"]
    /\ UNCHANGED <<chainVars, storeVars, pc, localVars, outcome, runs, aborts, histVars,
                   settle, nftCursor, call>>

\* await updateLastNFTSyncedBlock(dbClient, toBlock); fromBlock = toBlock + 1n
NftUpdate ==
    /\ nft.pc = "update"
    /\ nftCursor' = nft.toBlock
    /\ nft' = IF nft.toBlock + 1 <= nft.currentBlock
              THEN [nft EXCEPT !.fromBlock = nft.toBlock + 1, !.pc = "getEvents"]
              ELSE NftEnded
    /\ UNCHANGED <<chainVars, storeVars, pc, localVars, outcome, runs, aborts, histVars,
                   settle, transfers, call>>

\* an await of the window threw: the catch breaks out of the loop
NftBreak ==
    /\ nft.pc \in {"getEvents", "process", "update"}
    /\ nft' = NftEnded
    /\ UNCHANGED <<chainVars, storeVars, pc, localVars, outcome, runs, aborts, histVars,
                   settle, transfers, nftCursor, call>>

\* syncNFTEvents of the sync run: it reads the cursor and returns
syncNFTEvents ==
    /\ nft' = [nft EXCEPT !.synced = [eventsProcessed |-> 0, lastBlock |-> nftCursor]]
    /\ UNCHANGED <<chainVars, storeVars, pc, localVars, outcome, runs, aborts, histVars,
                   settle, transfers, nftCursor, call>>

\* the same inside a call of syncEvents, which waits for it
syncNFTEventsOfCall ==
    /\ call # NoCall /\ call.fn = "syncEvents" /\ call.transfer = "pending"
    /\ nft' = [nft EXCEPT !.synced = [eventsProcessed |-> 0, lastBlock |-> nftCursor]]
    /\ call' = [call EXCEPT !.transfer = "returned"]
    /\ UNCHANGED <<chainVars, storeVars, pc, localVars, outcome, runs, aborts, histVars,
                   settle, transfers, nftCursor>>

NextTransfers ==
    \/ MineTransfer
    \/ NftStart
    \/ NftGetBlockNumber
    \/ NftGetEvents
    \/ NftProcess
    \/ NftUpdate
    \/ NftBreak
    \/ syncNFTEvents

SpecTransfers == Init /\ [][NextTransfers]_vars

----------------------------------------------------------------------------
(* The transfer classifier called on every pair of addresses *)

ClassifierInputs ==
    {[fromAddress |-> from, toAddress |-> to] :
        from \in AddressesOf({"zero", "auction"} \cup UserAccounts),
        to \in AddressesOf({"zero", "auction"} \cup UserAccounts)}

InitClassify ==
    /\ InitProgram
    /\ call \in {[fn |-> "processTransferEvent", data |-> d, sync |-> {}, backfill |-> {}] :
                    d \in ClassifierInputs}

\* the classifier of sync.js is applied
ClassifySync ==
    /\ call.fn = "processTransferEvent"
    /\ call.sync = {}
    /\ call' = [call EXCEPT !.sync = {isP2P(call.data)}]
    /\ UNCHANGED <<chainVars, storeVars, pc, localVars, outcome, runs, aborts, histVars,
                   settle, transfers, nftCursor, nft>>

\* the classifier of backfill-transfers.js is applied
ClassifyBackfill ==
    /\ call.fn = "processTransferEvent"
    /\ call.backfill = {}
    /\ call' = [call EXCEPT !.backfill = {isP2PBackfill(call.data)}]
    /\ UNCHANGED <<chainVars, storeVars, pc, localVars, outcome, runs, aborts, histVars,
                   settle, transfers, nftCursor, nft>>

NextClassify == ClassifySync \/ ClassifyBackfill

SpecClassify == InitClassify /\ [][NextClassify]_vars

----------------------------------------------------------------------------
(* formatCastHash and padCastHash called on hex strings *)

HexDigits == {"0", "a", "f"}

\* where the first run of digits of a string ends
RunEnds == {0, 1, 2, 24, 25}

\* hex strings of 20 and of 32 bytes, of one or two runs of digits, without
\* and with the 0x prefix
HexStrings ==
    LET bodies == {Cat(Chars(c, k), Chars(d, len - k)) :
                      c \in HexDigits, d \in HexDigits, k \in RunEnds,
                      len \in {Bytes20Chars, Bytes32Chars}}
    IN bodies \cup {Cat(Prefix0x, b) : b \in bodies}

InitHash ==
    /\ InitProgram
    /\ call \in {[fn |-> "formatCastHash", castHash |-> h, once |-> {}, twice |-> {},
                  padded |-> {}, back |-> {}] : h \in HexStrings}

\* formatCastHash(castHash)
FormatOnce ==
    /\ call.fn = "formatCastHash"
    /\ call.once = {}
    /\ call' = [call EXCEPT !.once = {formatCastHash(call.castHash)}]
    /\ UNCHANGED <<chainVars, storeVars, pc, localVars, outcome, runs, aborts, histVars,
                   settle, transfers, nftCursor, nft>>

\* formatCastHash of the result
FormatTwice ==
    /\ call.fn = "formatCastHash"
    /\ call.twice = {}
    /\ \E h \in call.once : call' = [call EXCEPT !.twice = {formatCastHash(h)}]
    /\ UNCHANGED <<chainVars, storeVars, pc, localVars, outcome, runs, aborts, histVars,
                   settle, transfers, nftCursor, nft>>

\* padCastHash of the result
PadResult ==
    /\ call.fn = "formatCastHash"
    /\ call.padded = {}
    /\ \E h \in call.once : call' = [call EXCEPT !.padded = {padCastHash(h)}]
    /\ UNCHANGED <<chainVars, storeVars, pc, localVars, outcome, runs, aborts, histVars,
                   settle, transfers, nftCursor, nft>>

\* formatCastHash of the padded reference
FormatPadded ==
    /\ call.fn = "formatCastHash"
    /\ call.back = {}
    /\ \E h \in call.padded : call' = [call EXCEPT !.back = {formatCastHash(h)}]
    /\ UNCHANGED <<chainVars, storeVars, pc, localVars, outcome, runs, aborts, histVars,
                   settle, transfers, nftCursor, nft>>

NextHash == FormatOnce \/ FormatTwice \/ PadResult \/ FormatPadded

SpecHash == InitHash /\ [][NextHash]_vars

----------------------------------------------------------------------------
(* Analytics aggregation engine: the SQL of the query handlers *)

BidRows == Range(bids)

BidsOf(fid) == {b \in BidRows : b.bidder_fid = fid}

BidsOfIn(fid, aid) == {b \in BidRows : b.bidder_fid = fid /\ b.auction_id = aid}

Bidders == {b.bidder_fid : b \in BidRows}

AmountOf == [b \in BidRows |-> b.amount]

\* SUM(amount) in the place of MAX(amount)
GroupVolumeSummed(rows) == Sum([b \in rows |-> b.amount], rows)

\* MAX(amount) of a group of bid rows
GroupVolume(rows) == SetMax({b.amount : b \in rows})

\* WITH max_bids_per_auction AS (SELECT bidder_fid, auction_id, MAX(amount),
\* COUNT(*) FROM bids GROUP BY bidder_fid, auction_id)
max_bids_per_auction ==
    {[bidder_fid |-> g[1],
      auction_id |-> g[2],
      max_bid_amount |-> GroupVolume(BidsOfIn(g[1], g[2])),
      bid_count_per_auction |-> Cardinality(BidsOfIn(g[1], g[2]))]
        : g \in {<<b.bidder_fid, b.auction_id>> : b \in BidRows}}

SumMaxBid(groups) == Sum([g \in groups |-> g.max_bid_amount], groups)

SumBidCount(groups) == Sum([g \in groups |-> g.bid_count_per_auction], groups)

\* GET /analytics/top-bidders: one row per bidder (before ORDER BY and LIMIT)
TopBiddersRow(fid) ==
    LET groups == {g \in max_bids_per_auction : g.bidder_fid = fid} IN
    [bidder_fid |-> fid,
     auctions_participated |-> Cardinality({g.auction_id : g \in groups}),
     total_bids |-> SumBidCount(groups),
     total_volume |-> SumMaxBid(groups),
     total_volume_cents |-> usdcToCents(SumMaxBid(groups)),
     highest_bid |-> SetMax({g.max_bid_amount : g \in groups})]

\* GET /analytics/stats
GlobalStats ==
    [total_simps |-> Cardinality({g.bidder_fid : g \in max_bids_per_auction}),
     total_bids |-> Cardinality(BidRows),
     total_volume |-> IF max_bids_per_auction = {} THEN NULL ELSE SumMaxBid(max_bids_per_auction),
     totalVolumeCents |-> usdcToCents(IF max_bids_per_auction = {} THEN NULL
                                      ELSE SumMaxBid(max_bids_per_auction))]

\* GET /analytics/user/:fid and GET /analytics/simp-level/:fid: statsResult
UserStats(fid) ==
    LET groups == {[auction_id |-> a, max_bid_amount |-> GroupVolume(BidsOfIn(fid, a))]
                       : a \in {b.auction_id : b \in BidsOf(fid)}} IN
    [auctions_participated |-> Cardinality({b.auction_id : b \in BidsOf(fid)}),
     total_bids |-> Cardinality(BidsOf(fid)),
     total_volume |-> IF groups = {} THEN NULL ELSE SumMaxBid(groups),
     total_volume_cents |-> usdcToCents(IF groups = {} THEN NULL ELSE SumMaxBid(groups))]

\* GET /analytics/hall-of-shame/:fid, the single-query handler: user_stats
\* counts the rows of the per-auction subquery user_max_bids
HallOfShameUserStats(fid) ==
    LET user_bids == {b \in BidsOf(fid) : \E i \in 1..Len(auctions) : auctions[i].id = b.auction_id}
        user_max_bids == {[auction_id |-> a,
                           max_bid_per_auction |-> GroupVolume({b \in user_bids : b.auction_id = a})]
                              : a \in {b.auction_id : b \in user_bids}} IN
    [auctions_participated |-> Cardinality({g.auction_id : g \in user_max_bids}),
     total_bids |-> Cardinality(user_max_bids),
     total_volume |-> IF user_max_bids = {} THEN NULL
                      ELSE Sum([g \in user_max_bids |-> g.max_bid_per_auction], user_max_bids)]


----------------------------------------------------------------------------
(* The leaderboard handlers: top-bidders and top-bidders/timeframe *)

MaxBoardEvents == 4

\* c.req.query('limit'): a given limit, or the default
Limits == {1, 10}

\* c.req.query('period'): the periods of the switch, and one it does not know
Periods == {"day", "week", "month", "all-time", "year"}

\* NOW(), counted in days: a block a day
Now == BlockTimestamp(head)

\* the switch with no empty clause: 'all-time' and unknown periods fall to
\* the clause of the day
TimeClauseOfDay(period, b) ==
    CASE period = "week" -> b.timestamp >= Now - 7
      [] period = "month" -> b.timestamp >= Now - 30
      [] OTHER -> b.timestamp >= Now - 1

\* WHERE 1=1 ${timeClause}
TimeClause(period, b) ==
    CASE period = "day" -> b.timestamp >= Now - 1
      [] period = "week" -> b.timestamp >= Now - 7
      [] period = "month" -> b.timestamp >= Now - 30
      [] OTHER -> TRUE

\* the rows of the timeframe query, before ORDER BY and LIMIT
TimeframeRows(period) ==
    LET b == {r \in BidRows : TimeClause(period, r)}
        of(fid, aid) == {r \in b : r.bidder_fid = fid /\ r.auction_id = aid}
        groups == {[bidder_fid |-> g[1],
                    auction_id |-> g[2],
                    max_bid_amount |-> SetMax({r.amount : r \in of(g[1], g[2])}),
                    bid_count_per_auction |-> Cardinality(of(g[1], g[2]))]
                      : g \in {<<r.bidder_fid, r.auction_id>> : r \in b}}
    IN {LET mine == {g \in groups : g.bidder_fid = fid} IN
        [bidder_fid |-> fid,
         total_bids |-> SumBidCount(mine),
         total_volume |-> SumMaxBid(mine)] : fid \in {g.bidder_fid : g \in groups}}

\* the rows of the all-time query, before ORDER BY and LIMIT
TopBiddersRows ==
    {[bidder_fid |-> fid,
      total_bids |-> TopBiddersRow(fid).total_bids,
      total_volume |-> TopBiddersRow(fid).total_volume] : fid \in Bidders}

\* ORDER BY total_bids DESC, total_volume DESC places a before b
OrderedBefore(a, b) ==
    \/ a.total_bids > b.total_bids
    \/ a.total_bids = b.total_bids /\ a.total_volume >= b.total_volume

\* ORDER BY total_bids DESC, total_volume DESC LIMIT $1: every result the
\* database may return; rows equal in both keys come in any order
OrderByLimit(rows, limit) ==
    LET n == Cardinality(rows)
        sorted == {s \in [1..n -> rows] :
                     /\ \A i, j \in 1..n : i # j => s[i] # s[j]
                     /\ \A i, j \in 1..n : i < j => OrderedBefore(s[i], s[j])}
    IN {SubSeq(s, 1, Min(limit, n)) : s \in sorted}

\* the store is the projection of the whole chain and no run is in flight
Synced == pc["scheduled"] = "idle" /\ cursor = head

\* GET /analytics/top-bidders
GetTopBidders ==
    /\ Synced
    /\ call = NoCall \/ (call.fn = "top-bidders" /\ call.allTime = {})
    /\ \E limit \in IF call = NoCall THEN Limits ELSE {call.limit} :
       \E s \in OrderByLimit(TopBiddersRows, limit) :
          call' = [fn |-> "top-bidders",
                   limit |-> limit,
                   period |-> IF call = NoCall THEN "" ELSE call.period,
                   allTime |-> {s},
                   timeframe |-> IF call = NoCall THEN {} ELSE call.timeframe]
    /\ UNCHANGED <<chainVars, storeVars, pc, localVars, outcome, runs, aborts, histVars,
                   settle, transfers, nftCursor, nft>>

\* GET /analytics/top-bidders/timeframe
GetTopBiddersTimeframe ==
    /\ Synced
    /\ call = NoCall \/ (call.fn = "top-bidders" /\ call.timeframe = {})
    /\ \E limit \in IF call = NoCall THEN Limits ELSE {call.limit} :
       \E period \in Periods :
       \E s \in OrderByLimit(TimeframeRows(period), limit) :
          call' = [fn |-> "top-bidders",
                   limit |-> limit,
                   period |-> period,
                   allTime |-> IF call = NoCall THEN {} ELSE call.allTime,
                   timeframe |-> {s}]
    /\ UNCHANGED <<chainVars, storeVars, pc, localVars, outcome, runs, aborts, histVars,
                   settle, transfers, nftCursor, nft>>

\* bids of two bidders on one auction; the blocks are mined before the
\* leaderboards are asked for
MineBoard ==
    /\ pc["scheduled"] = "idle"
    /\ call = NoCall
    /\ \E l \in StartLogs(OneCast \ StartedCasts, {1}) \cup BidLogs(Fids, Amounts) :
           MineLog(1, l, MaxBoardEvents, MaxBoardEvents)

NextBoard ==
    \/ MineBoard
    \/ RunStep("scheduled")
    \/ GetTopBidders
    \/ GetTopBiddersTimeframe

SpecBoard == Init /\ [][NextBoard]_vars

----------------------------------------------------------------------------
(* getNextMilestone called on the statistics of a user *)

bidMilestones == <<1, 5, 10, 20, 50, 100, 500, 1000>>

volumeMilestones == <<10, 50, 100, 500, 1000, 5000, 10000>>

\* Array.prototype.find: the first element among those that pass the test,
\* or undefined (NULL)
find(array, passing) ==
    LET hits == {i \in 1..Len(array) : array[i] \in passing} IN
    IF hits = {} THEN NULL ELSE array[CHOOSE i \in hits : \A j \in hits : i <= j]

\* a number that is not 0, NaN or undefined
Truthy(v) == v # NULL /\ v # 0

\* an amount of NUMERIC(78, 0), beyond 32 bits: millions * 1000000 + units
Numeric(millions, units) == [millions |-> millions, units |-> units]

\* SQL NULL in a column of such amounts
NULL_NUMERIC == Numeric(NULL, NULL)

\* Number(totalVolume) / 1_000_000: the whole dollars and the millionths
InUSD(totalVolume) ==
    [dollars |-> totalVolume.millions, millionths |-> totalVolume.units]

\* m > volumeInUSD for a whole number m
Above(m, volumeInUSD) == m > volumeInUSD.dollars

\* the bid ladder searched with m >= totalBids
getNextMilestoneAtLeast(stats) ==
    LET totalBids == stats.total_bids
        totalVolume == IF stats.total_volume = NULL_NUMERIC THEN Numeric(0, 0)
                       ELSE stats.total_volume
        nextBidMilestone == find(bidMilestones, {m \in Range(bidMilestones) : m >= totalBids})
        volumeInUSD == InUSD(totalVolume)
        nextVolumeMilestone == find(volumeMilestones,
                                    {m \in Range(volumeMilestones) : Above(m, volumeInUSD)})
    IN IF Truthy(nextBidMilestone)
       THEN [type |-> "bids", requirement |-> nextBidMilestone, current |-> totalBids]
       ELSE IF Truthy(nextVolumeMilestone)
       THEN [type |-> "volume", requirement |-> nextVolumeMilestone, current |-> volumeInUSD]
       ELSE [type |-> "legendary", requirement |-> "infinity", current |-> totalBids]

getNextMilestone(stats) ==
    LET totalBids == stats.total_bids
        totalVolume == IF stats.total_volume = NULL_NUMERIC THEN Numeric(0, 0)
                       ELSE stats.total_volume
        nextBidMilestone == find(bidMilestones, {m \in Range(bidMilestones) : m > totalBids})
        volumeInUSD == InUSD(totalVolume)
        nextVolumeMilestone == find(volumeMilestones,
                                    {m \in Range(volumeMilestones) : Above(m, volumeInUSD)})
    IN IF Truthy(nextBidMilestone)
       THEN [type |-> "bids", requirement |-> nextBidMilestone, current |-> totalBids]
       ELSE IF Truthy(nextVolumeMilestone)
       THEN [type |-> "volume", requirement |-> nextVolumeMilestone, current |-> volumeInUSD]
       ELSE [type |-> "legendary", requirement |-> "infinity", current |-> totalBids]

\* the bid counts at, below and above the steps of the ladder
BidCounts ==
    {0} \cup {bidMilestones[i] - 1 : i \in 1..Len(bidMilestones)}
        \cup Range(bidMilestones)
        \cup {bidMilestones[i] + 1 : i \in 1..Len(bidMilestones)}

\* the volumes at the steps of the ladder, a millionth of a dollar below
\* and a millionth above
Volumes ==
    {Numeric(0, 1)}
        \cup {Numeric(volumeMilestones[i] - 1, OneDollar - 1) : i \in 1..Len(volumeMilestones)}
        \cup {Numeric(volumeMilestones[i], 0) : i \in 1..Len(volumeMilestones)}
        \cup {Numeric(volumeMilestones[i], 1) : i \in 1..Len(volumeMilestones)}

\* statsResult.rows[0]: a user without bids has no volume
StatsRows ==
    {[total_bids |-> 0, total_volume |-> NULL_NUMERIC]}
        \cup [total_bids : BidCounts \ {0}, total_volume : Volumes]

InitMilestone ==
    /\ InitProgram
    /\ call \in {[fn |-> "getNextMilestone", stats |-> s, ret |-> {}] : s \in StatsRows}

GetNextMilestone ==
    /\ call.fn = "getNextMilestone"
    /\ call.ret = {}
    /\ call' = [call EXCEPT !.ret = {getNextMilestone(call.stats)}]
    /\ UNCHANGED <<chainVars, storeVars, pc, localVars, outcome, runs, aborts, histVars,
                   settle, transfers, nftCursor, nft>>

NextMilestone == GetNextMilestone

SpecMilestone == InitMilestone /\ [][NextMilestone]_vars

----------------------------------------------------------------------------
(* determineWinner called on the statistics of two users.  A value that    *)
(* may be null is the set of at most one value.                            *)

\* the template literal `${a}-${b}`
Score(a, b) == <<a, "-", b>>

\* total_volume || '0', highest_bid || '0'
OrZero(v) == IF v = NULL THEN 0 ELSE v

\* the bid counts compared with >=
determineWinnerAtLeast(user1Stats, user2Stats) ==
    IF user1Stats = {} \/ user2Stats = {} THEN {}
    ELSE LET s1 == CHOOSE s \in user1Stats : TRUE
             s2 == CHOOSE s \in user2Stats : TRUE
             bids1 == IF s1.total_bids >= s2.total_bids THEN 1 ELSE 0
             volume1 == IF OrZero(s1.total_volume) > OrZero(s2.total_volume) THEN 1 ELSE 0
             highest1 == IF OrZero(s1.highest_bid) > OrZero(s2.highest_bid) THEN 1 ELSE 0
             user1 == bids1 + volume1 + highest1
             user2 == (1 - bids1) + (1 - volume1) + (1 - highest1)
         IN {[fid |-> IF user1 > user2 THEN s1.bidder_fid ELSE s2.bidder_fid,
              score |-> Score(IF user1 > user2 THEN user1 ELSE user2,
                              IF user1 < user2 THEN user1 ELSE user2)]}

determineWinner(user1Stats, user2Stats) ==
    IF user1Stats = {} \/ user2Stats = {} THEN {}
    ELSE LET s1 == CHOOSE s \in user1Stats : TRUE
             s2 == CHOOSE s \in user2Stats : TRUE
             bids1 == IF s1.total_bids > s2.total_bids THEN 1 ELSE 0
             volume1 == IF OrZero(s1.total_volume) > OrZero(s2.total_volume) THEN 1 ELSE 0
             highest1 == IF OrZero(s1.highest_bid) > OrZero(s2.highest_bid) THEN 1 ELSE 0
             user1 == bids1 + volume1 + highest1
             user2 == (1 - bids1) + (1 - volume1) + (1 - highest1)
         IN {[fid |-> IF user1 > user2 THEN s1.bidder_fid ELSE s2.bidder_fid,
              score |-> Score(IF user1 > user2 THEN user1 ELSE user2,
                              IF user1 < user2 THEN user1 ELSE user2)]}

\* the rows the statistics query can return for a bidder: up to three bids,
\* the highest of them no more than their volume
BattleStats(fid) ==
    {s \in [bidder_fid : {fid}, total_bids : 1..3, total_volume : {OneDollar, 2 * OneDollar, 3 * OneDollar},
            highest_bid : {OneDollar, 2 * OneDollar}] : s.highest_bid <= s.total_volume}

\* user1Stats and user2Stats: a row, or null for a user without bids
InitWinner ==
    /\ InitProgram
    /\ call \in {[fn |-> "determineWinner", user1Stats |-> a, user2Stats |-> b,
                  called |-> FALSE, ret |-> {}] :
                    a \in {{}} \cup {{s} : s \in BattleStats(1)},
                    b \in {{}} \cup {{s} : s \in BattleStats(2)}}

DetermineWinner ==
    /\ call.fn = "determineWinner"
    /\ ~call.called
    /\ call' = [call EXCEPT !.called = TRUE,
                            !.ret = determineWinner(call.user1Stats, call.user2Stats)]
    /\ UNCHANGED <<chainVars, storeVars, pc, localVars, outcome, runs, aborts, histVars,
                   settle, transfers, nftCursor, nft>>

NextWinner == DetermineWinner

SpecWinner == InitWinner /\ [][NextWinner]_vars

----------------------------------------------------------------------------
(* The rivalry handler: GET /analytics/outbid-history/:fid *)

MaxRivalEvents == 4

RivalFids == {1, 2, 3}

RivalAmounts == {5 * OneDollar, 10 * OneDollar}

\* the CTE bid_sequences without its WHERE on the bidder: bids b1 and b2 of
\* one auction, b1 later and larger, no bid of the auction between them
bid_sequences ==
    {p \in BidRows \X BidRows :
        /\ p[1].auction_id = p[2].auction_id
        /\ p[1].timestamp > p[2].timestamp
        /\ p[1].amount > p[2].amount
        /\ ~\E b3 \in BidRows : /\ b3.auction_id = p[1].auction_id
                                /\ b3.timestamp > p[2].timestamp
                                /\ b3.timestamp < p[1].timestamp}

\* winning_amount - losing_amount
OutbidAmount == [p \in bid_sequences |-> p[1].amount - p[2].amount]

\* SELECT outbid_victim, COUNT(*), SUM(...), MAX(...) ... WHERE b1.bidder_fid = $1
\* GROUP BY outbid_victim
outbidByUserRows(fid) ==
    LET seqs == {p \in bid_sequences : p[1].bidder_fid = fid} IN
    {LET group == {p \in seqs : p[2].bidder_fid = v} IN
     [victim_fid |-> v,
      times_outbid |-> Cardinality(group),
      total_outbid_amount |-> Sum(OutbidAmount, group),
      max_outbid_amount |-> SetMax({OutbidAmount[p] : p \in group})]
        : v \in {p[2].bidder_fid : p \in seqs}}

\* SELECT outbidder, COUNT(*), SUM(...), MAX(...) ... WHERE b2.bidder_fid = $1
\* GROUP BY outbidder
outbidThisUserRows(fid) ==
    LET seqs == {p \in bid_sequences : p[2].bidder_fid = fid} IN
    {LET group == {p \in seqs : p[1].bidder_fid = r} IN
     [rival_fid |-> r,
      times_been_outbid |-> Cardinality(group),
      total_outbid_amount |-> Sum(OutbidAmount, group),
      max_outbid_amount |-> SetMax({OutbidAmount[p] : p \in group})]
        : r \in {p[1].bidder_fid : p \in seqs}}

\* ORDER BY key DESC LIMIT 10: every result the database may return
OrderByDescLimit10(rows, key) ==
    LET n == Cardinality(rows)
        sorted == {s \in [1..n -> rows] :
                     /\ \A i, j \in 1..n : i # j => s[i] # s[j]
                     /\ \A i, j \in 1..n : i < j => key[s[i]] >= key[s[j]]}
    IN {SubSeq(s, 1, Min(10, n)) : s \in sorted}

\* rivalryScores after the two forEach loops: the keys and their scores
rivalryScores(victims, rivals) ==
    LET keys == {victims[i].victim_fid : i \in 1..Len(victims)}
                    \cup {rivals[i].rival_fid : i \in 1..Len(rivals)}
    IN [k \in keys |->
          Sum([i \in 1..Len(victims) |-> victims[i].times_outbid],
              {i \in 1..Len(victims) : victims[i].victim_fid = k})
          + Sum([i \in 1..Len(rivals) |-> rivals[i].times_been_outbid],
                {i \in 1..Len(rivals) : rivals[i].rival_fid = k})]

\* Object.entries(rivalryScores).sort(([, a], [, b]) => b - a)[0]?.[0]:
\* integer keys come in ascending order and the sort is stable
biggestRival(scores) ==
    LET best == {k \in DOMAIN scores : \A j \in DOMAIN scores : scores[k] >= scores[j]} IN
    IF best = {} THEN {}
    ELSE LET k == CHOOSE b \in best : \A c \in best : b <= c IN
         {[fid |-> k, totalInteractions |-> scores[k]]}

GetOutbidHistory ==
    /\ Synced
    /\ call = NoCall
    /\ \E fid \in RivalFids :
       \E victims \in OrderByDescLimit10(outbidByUserRows(fid),
                                         [r \in outbidByUserRows(fid) |-> r.times_outbid]) :
       \E rivals \in OrderByDescLimit10(outbidThisUserRows(fid),
                                        [r \in outbidThisUserRows(fid) |-> r.times_been_outbid]) :
          call' = [fn |-> "outbid-history",
                   fid |-> fid,
                   victims |-> victims,
                   rivals |-> rivals,
                   biggestRival |-> biggestRival(rivalryScores(victims, rivals))]
    /\ UNCHANGED <<chainVars, storeVars, pc, localVars, outcome, runs, aborts, histVars,
                   settle, transfers, nftCursor, nft>>

\* bids of three bidders on one auction; the blocks are mined before the
\* history is asked for
MineRival ==
    /\ pc["scheduled"] = "idle"
    /\ call = NoCall
    /\ \E l \in StartLogs(OneCast \ StartedCasts, {1}) \cup BidLogs(RivalFids, RivalAmounts) :
           MineLog(1, l, MaxRivalEvents, MaxRivalEvents)

NextRival ==
    \/ MineRival
    \/ RunStep("scheduled")
    \/ GetOutbidHistory

SpecRival == Init /\ [][NextRival]_vars

----------------------------------------------------------------------------
(* The percentile of GET /analytics/simp-level/:fid *)

\* (numerator / denominator * 100).toFixed(1), in tenths of a percent: the
\* nearest tenth; where the quotient lies exactly between two tenths the
\* digit depends on the rounding of the double, so both are possible
toFixed1(numerator, denominator) ==
    LET q == (1000 * numerator) \div denominator
        r == (1000 * numerator) % denominator
    IN IF 2 * r < denominator THEN {q}
       ELSE IF 2 * r > denominator THEN {q + 1}
       ELSE {q, q + 1}

\* rank ? ((totalSimps - parseInt(rank.bid_rank) + 1) / totalSimps * 100).toFixed(1) : 0
percentile(rank, totalSimps) ==
    IF rank # {} THEN UNION {toFixed1(totalSimps - r.bid_rank + 1, totalSimps) : r \in rank}
    ELSE {0}

\* SELECT COUNT(DISTINCT bidder_fid) as total FROM bids
TotalSimps == (1..12) \cup {1234}

\* RANK() OVER (ORDER BY SUM(bid_count_per_auction) DESC) of one of the bidders
BidRanks(totalSimps) == IF totalSimps <= 12 THEN 1..totalSimps ELSE {1, 23, 617, 1234}

InitPercentile ==
    /\ InitProgram
    /\ call \in UNION {{[fn |-> "percentile", bid_rank |-> r, totalSimps |-> n,
                          called |-> FALSE, ret |-> 0] : r \in BidRanks(n)} : n \in TotalSimps}

\* percentile: `Top ${percentile}%`, the number kept in tenths
Percentile ==
    /\ call.fn = "percentile"
    /\ ~call.called
    /\ \E p \in percentile({[bid_rank |-> call.bid_rank]}, call.totalSimps) :
           call' = [call EXCEPT !.called = TRUE, !.ret = p]
    /\ UNCHANGED <<chainVars, storeVars, pc, localVars, outcome, runs, aborts, histVars,
                   settle, transfers, nftCursor, nft>>

NextPercentile == Percentile

SpecPercentile == InitPercentile /\ [][NextPercentile]_vars

----------------------------------------------------------------------------
(* The head-to-head handler: GET /analytics/simp-battles *)

MaxBattleEvents == 3

\* a query parameter is absent or a string of characters; the profile
\* service knows the user named "a" and no user named "b"
FidParams == {{}} \cup {{s} : s \in {<<"1">>, <<"2">>, <<"a">>, <<"1", "a">>}}

UserParams == {{}, {<<>>}, {<<"a">>}, {<<"b">>}}

Digits == [c \in {"0", "1", "2", "3", "4", "5", "6", "7", "8", "9"} |->
             CASE c = "0" -> 0 [] c = "1" -> 1 [] c = "2" -> 2 [] c = "3" -> 3 [] c = "4" -> 4
               [] c = "5" -> 5 [] c = "6" -> 6 [] c = "7" -> 7 [] c = "8" -> 8 [] c = "9" -> 9]

\* !user1, !fid1Param: undefined and the empty string are falsy
Falsy(param) == param = {} \/ param = {<<>>}

RECURSIVE DecimalPrefix(_, _)
\* the value of the longest prefix of decimal digits, after the digits read
DecimalPrefix(s, value) ==
    IF s = <<>> \/ Head(s) \notin DOMAIN Digits THEN value
    ELSE DecimalPrefix(Tail(s), 10 * value + Digits[Head(s)])

\* parseInt(string): the leading decimal digits, whatever follows them; NaN
\* (no value) when the string does not start with a digit
parseInt(s) ==
    IF s = <<>> \/ Head(s) \notin DOMAIN Digits THEN {}
    ELSE {DecimalPrefix(s, 0)}

\* neynarClient.getUserByUsername: the profile, or null when the service
\* answers with an error or knows no such user
getUserByUsername(username) ==
    IF username = <<"a">> THEN {{[fid |-> 1]}, {}} ELSE {{}}

\* statsResult.rows of the head-to-head query
BattleStatsRows(fid1, fid2) == {TopBiddersRow(f) : f \in {fid1, fid2} \cap Bidders}

\* the request arrives; lines 701-703
BattleRequest ==
    /\ Synced
    /\ call = NoCall
    /\ \E user1 \in UserParams, user2 \in UserParams, fid1Param \in FidParams, fid2Param \in FidParams :
          LET missing == (Falsy(user1) /\ Falsy(fid1Param)) \/ (Falsy(user2) /\ Falsy(fid2Param)) IN
          call' = [fn |-> "simp-battles",
                   user1 |-> user1, user2 |-> user2,
                   fid1Param |-> fid1Param, fid2Param |-> fid2Param,
                   pc |-> IF missing THEN "done" ELSE "side1",
                   status |-> IF missing THEN 400 ELSE 0,
                   fid1 |-> {}, fid2 |-> {},
                   lookups |-> <<>>,
                   queries |-> 0,
                   winner |-> {}]
    /\ UNCHANGED <<chainVars, storeVars, pc, localVars, outcome, runs, aborts, histVars,
                   settle, transfers, nftCursor, nft>>

\* one side resolved: the name looked up, or the id parsed; the next record
Resolve(c, user, fidParam, field, next) ==
    IF ~Falsy(user)
    THEN {IF userData = {}
          THEN [c EXCEPT !.pc = "done", !.status = 404,
                         !.lookups = Append(@, "null")]
          ELSE [c EXCEPT !.pc = next, ![field] = {u.fid : u \in userData},
                         !.lookups = Append(@, "found")]
             : userData \in UNION {getUserByUsername(u) : u \in user}}
    ELSE LET fid == UNION {parseInt(s) : s \in fidParam} IN
         {IF fid = {}
          THEN [c EXCEPT !.pc = "done", !.status = 400]
          ELSE [c EXCEPT !.pc = next, ![field] = fid]}

\* lines 709-723
BattleSide1 ==
    /\ call # NoCall /\ call.fn = "simp-battles" /\ call.pc = "side1"
    /\ call' \in Resolve(call, call.user1, call.fid1Param, "fid1", "side2")
    /\ UNCHANGED <<chainVars, storeVars, pc, localVars, outcome, runs, aborts, histVars,
                   settle, transfers, nftCursor, nft>>

\* lines 725-739
BattleSide2 ==
    /\ call # NoCall /\ call.fn = "simp-battles" /\ call.pc = "side2"
    /\ call' \in Resolve(call, call.user2, call.fid2Param, "fid2", "stats")
    /\ UNCHANGED <<chainVars, storeVars, pc, localVars, outcome, runs, aborts, histVars,
                   settle, transfers, nftCursor, nft>>

\* lines 741-846: the stats query and the response
BattleStatsQuery ==
    /\ call # NoCall /\ call.fn = "simp-battles" /\ call.pc = "stats"
    /\ \E fid1 \in call.fid1, fid2 \in call.fid2 :
          LET rows == BattleStatsRows(fid1, fid2)
              user1Stats == {r \in rows : r.bidder_fid = fid1}
              user2Stats == {r \in rows : r.bidder_fid = fid2}
          IN call' = [call EXCEPT !.pc = "done", !.status = 200,
                                  !.queries = @ + 1,
                                  !.winner = determineWinner(user1Stats, user2Stats)]
    /\ UNCHANGED <<chainVars, storeVars, pc, localVars, outcome, runs, aborts, histVars,
                   settle, transfers, nftCursor, nft>>

MineBattle ==
    /\ pc["scheduled"] = "idle"
    /\ call = NoCall
    /\ \E l \in StartLogs(OneCast \ StartedCasts, {1}) \cup BidLogs(Fids, Amounts) :
           MineLog(1, l, MaxBattleEvents, MaxBattleEvents)

NextBattle ==
    \/ MineBattle
    \/ RunStep("scheduled")
    \/ BattleRequest
    \/ BattleSide1
    \/ BattleSide2
    \/ BattleStatsQuery

SpecBattle == Init /\ [][NextBattle]_vars

----------------------------------------------------------------------------
(* syncEvents: the auction stream and the transfer stream of one call *)

MaxSyncEvents == 2

\* const [auctionResult, transferResult] = await Promise.all([
\*   syncAuctionEvents(env, client), syncNFTEvents(env, client)]):
\* both streams are started, each goes on at its own awaits
CallEnded ==
    /\ call # NoCall /\ call.fn = "syncEvents"
    /\ call.transfer # "pending"
    /\ started["scheduled"] = call.run
    /\ pc["scheduled"] = "idle"

SyncEvents ==
    /\ call = NoCall \/ CallEnded
    /\ pc["scheduled"] = "idle"
    /\ runs < MaxRuns
    /\ call' = [fn |-> "syncEvents", run |-> runs + 1, transfer |-> "pending",
                head |-> head, cursor |-> cursor, nftCursor |-> nftCursor]
    /\ UNCHANGED <<chainVars, storeVars, pc, localVars, outcome, runs, aborts, histVars,
                   settle, transfers, nftCursor, nft>>

\* syncAuctionEvents of the call
AuctionStream ==
    /\ call # NoCall /\ call.fn = "syncEvents"
    /\ IF started["scheduled"] < call.run
       THEN StartRun("scheduled")
       ELSE \/ GetBlockNumber("scheduled")
            \/ FetchWindow("scheduled")
            \/ ProcessEvent("scheduled")
            \/ CommitWindow("scheduled")

\* an await of the auction stream throws
AuctionStreamFails ==
    /\ call # NoCall /\ call.fn = "syncEvents"
    /\ started["scheduled"] = call.run
    /\ Abort("scheduled")

\* await getLastNFTSyncedBlock(env) throws
TransferStreamFails ==
    /\ call # NoCall /\ call.fn = "syncEvents" /\ call.transfer = "pending"
    /\ aborts < MaxAborts
    /\ aborts' = aborts + 1
    /\ call' = [call EXCEPT !.transfer = "failed"]
    /\ UNCHANGED <<chainVars, storeVars, pc, localVars, outcome, runs, histVars,
                   settle, transfers, nftCursor, nft>>

\* logs of the auction contract and Transfer logs of the collectible
\* contract between two users, mined between the calls
MineSync ==
    /\ call = NoCall \/ CallEnded
    /\ \/ \E l \in StartLogs(OneCast \ StartedCasts, {1}) \cup BidLogs({1}, {OneDollar}) :
             MineLog(1, l, MaxSyncEvents, MaxSyncEvents)
       \/ /\ Len(chain) < MaxSyncEvents
          /\ chain' = Append(chain, TransferLog([account |-> "u1", case |-> "lower"],
                                                [account |-> "u2", case |-> "lower"], 1))
          /\ head' = head + 1
          /\ UNCHANGED <<storeVars, pc, localVars, outcome, runs, aborts, histVars, auxVars>>

NextSyncEvents ==
    \/ MineSync
    \/ SyncEvents
    \/ AuctionStream
    \/ syncNFTEventsOfCall
    \/ AuctionStreamFails
    \/ TransferStreamFails

SpecSyncEvents == Init /\ [][NextSyncEvents]_vars

----------------------------------------------------------------------------
(* The sync run over windows with logs that do not decode *)

MaxDecodeEvents == 3

\* a log of the contract with the topic of a fetched event whose data do not
\* fit the ABI
MineMalformed(maxHead, maxEvents) ==
    /\ head + 1 <= maxHead
    /\ Len(chain) < maxEvents
    /\ \E name \in Whitelist :
          chain' = Append(chain, [blockNumber |-> head + 1,
                                  transactionHash |-> Len(chain) + 1,
                                  logIndex |-> 0,
                                  eventName |-> name,
                                  castHash |-> Bytes32Hash("a"),
                                  fid |-> 1,
                                  amount |-> 0,
                                  malformed |-> TRUE])
    /\ head' = head + 1
    /\ UNCHANGED <<auxVars, storeVars, pc, localVars, outcome, runs, aborts, histVars>>

WellFormedStarts ==
    {chain[i].castHash : i \in {j \in 1..Len(chain) :
        chain[j].eventName = "AuctionStarted" /\ Decodes(chain[j])}}

MineDecode ==
    /\ pc["scheduled"] = "idle"
    /\ \/ \E l \in StartLogs(OneCast \ WellFormedStarts, {1}) \cup BidLogs({1}, {OneDollar}) :
             MineLog(1, l, MaxDecodeEvents, MaxDecodeEvents)
       \/ MineMalformed(MaxDecodeEvents, MaxDecodeEvents)

NextDecode ==
    \/ MineDecode
    \/ RunStep("scheduled")

SpecDecode == Init /\ [][NextDecode]_vars

----------------------------------------------------------------------------
(* What one uninterrupted run over blocks 1..B projects *)

RECURSIVE ProjectLogs(_, _, _)
ProjectLogs(logs, i, tables) ==
    IF i > Len(logs) THEN tables
    ELSE LET event == logs[i]
             ids == AuctionIdsOf(tables.auctions, formatCastHash(event.castHash))
         IN ProjectLogs(logs, i + 1,
              IF event.eventName = "AuctionStarted"
              THEN [tables EXCEPT !.auctions = InsertAuction(tables.auctions, event)]
              ELSE IF ids = {} THEN tables
              ELSE [tables EXCEPT !.bids = InsertBid(tables.bids, CHOOSE id \in ids : TRUE, event)])

UninterruptedRun(B) == ProjectLogs(getContractEvents(1, B), 1, [auctions |-> <<>>, bids |-> <<>>])

StoreEquals(tables) == auctions = tables.auctions /\ bids = tables.bids

ChainLogs == Range(chain)

HasAuctionRow(event) == AuctionIdsOf(auctions, formatCastHash(event.castHash)) # {}

BidRowsOfEvent(event) == {i \in 1..Len(bids) : bids[i].transaction_hash = event.transactionHash}

\* the event has a row in the table its projector writes
HasRow(event) ==
    IF event.eventName = "AuctionStarted" THEN HasAuctionRow(event)
    ELSE BidRowsOfEvent(event) # {}

InWindow(r, event) == fromBlock[r] <= event.blockNumber /\ event.blockNumber <= toBlock[r]

\* the run of r has called the handler of the event in its current window
Handled(r, event) ==
    /\ pc[r] \in {"processEvent", "updateLastSyncedBlock"}
    /\ InWindow(r, event)
    /\ event \notin Range(events[r])

----------------------------------------------------------------------------
(* C1 *)

RECURSIVE ScanMax(_, _, _, _)
\* the largest amount among the bids of fid in auction aid, scanning the table
ScanMax(i, fid, aid, best) ==
    IF i > Len(bids) THEN best
    ELSE ScanMax(i + 1, fid, aid,
                 IF bids[i].bidder_fid = fid /\ bids[i].auction_id = aid /\ bids[i].amount > best
                 THEN bids[i].amount ELSE best)

AuctionsBidOn(fid) == {b.auction_id : b \in BidsOf(fid)}

SumOfMaxima(fid) == Sum([a \in AuctionsBidOn(fid) |-> ScanMax(1, fid, a, 0)], AuctionsBidOn(fid))

RawSum(fid) == Sum(AmountOf, BidsOf(fid))

RepeatedBidder(fid) == \E a \in AuctionsBidOn(fid) : Cardinality(BidsOfIn(fid, a)) >= 2

\* C1: for every bidder and auction with a bid, the volume unit of the
\* aggregation queries is the largest amount among the bidder's bids in
\* the auction; the top-bidders total, the per-user total and the global
\* total are sums of these maxima, below the raw sum of the bid amounts
\* as soon as a bidder bid twice in an auction.
C1_VolumeIsSumOfMaxima ==
    /\ \A g \in max_bids_per_auction :
          g.max_bid_amount = ScanMax(1, g.bidder_fid, g.auction_id, 0)
    /\ \A fid \in Bidders :
          LET row == TopBiddersRow(fid)
              maxima == SumOfMaxima(fid)
          IN /\ row.total_volume = maxima
             /\ row.total_volume_cents = usdcToCents(maxima)
             /\ UserStats(fid).total_volume = maxima
             /\ RepeatedBidder(fid) => row.total_volume < RawSum(fid)
    /\ Bidders # {} =>
          GlobalStats.total_volume = Sum([fid \in Bidders |-> SumOfMaxima(fid)], Bidders)

\* a bidder placed two bids of different amounts in one auction
C1_Witness ==
    \E fid \in Bidders : \E a \in AuctionsBidOn(fid) :
        /\ Cardinality({b.amount : b \in BidsOfIn(fid, a)}) >= 2
        /\ TopBiddersRow(fid).total_volume = GroupVolume(BidsOfIn(fid, a))

----------------------------------------------------------------------------
(* C2 *)

RowCount(fid) == Cardinality({i \in 1..Len(bids) : bids[i].bidder_fid = fid})

\* C2: every per-user bid count (top-bidders, user, simp-level and
\* hall-of-shame) is the number of bid rows of the bidder, several bids in
\* one auction counting each.
C2_BidCountIsRowCount ==
    \A fid \in Bidders :
        /\ TopBiddersRow(fid).total_bids = RowCount(fid)
        /\ UserStats(fid).total_bids = RowCount(fid)
        /\ HallOfShameUserStats(fid).total_bids = RowCount(fid)

----------------------------------------------------------------------------
(* C3 *)

\* C3: however often a bid event (transaction hash, log index) is delivered
\* to the bid projector, the store holds one Bid row for it.
C3_OneRowPerBidEvent ==
    \A event \in ChainLogs :
        event.eventName = "BidPlaced" => Cardinality(BidRowsOfEvent(event)) <= 1


----------------------------------------------------------------------------
(* C4 *)

OneRowPerCastHash ==
    \A i, j \in 1..Len(auctions) : auctions[i].cast_hash = auctions[j].cast_hash => i = j

\* r handles an auction-start event whose content reference has a row
ReplaysStart(r) ==
    /\ pc[r] = "processEvent"
    /\ events'[r] # events[r]
    /\ Head(events[r]).eventName = "AuctionStarted"
    /\ HasAuctionRow(Head(events[r]))

\* C4: projecting an auction-start event whose normalized content reference
\* has an Auction row changes no auction row and adds none; at most one
\* row exists per content reference.
C4_StartReplayIsNoOp ==
    /\ []OneRowPerCastHash
    /\ [][\A r \in Runners : ReplaysStart(r) => auctions' = auctions]_vars

\* both triggers have handled the same start event without dropping it,
\* and its content reference has one row
C4_Witness ==
    \E event \in ChainLogs :
        /\ event.eventName = "AuctionStarted"
        /\ event.transactionHash \notin dropped
        /\ \A r \in Runners : Handled(r, event)
        /\ Cardinality(AuctionIdsOf(auctions, formatCastHash(event.castHash))) = 1

----------------------------------------------------------------------------
(* C5 *)

AllIdle == \A r \in Runners : pc[r] = "idle"

\* C5: a run stopped before the cursor update of its window, then a run
\* that completes: the tables are those of one uninterrupted run over the
\* same blocks.
C5_RestartEqualsUninterrupted ==
    \A r \in Runners :
        (/\ AllIdle
         /\ outcome[r] = "done"
         /\ started[r] = runs
         /\ aborts > 0
         /\ dropped = {})
        => StoreEquals(UninterruptedRun(cursor))

----------------------------------------------------------------------------
(* C6 *)

\* C6: the stored cursor never decreases, whatever the interleaving of runs.
C6_CursorNeverDecreases == [][cursor' >= cursor]_vars

----------------------------------------------------------------------------
(* C7 *)

\* the event lies in a window the run of r has committed
Committed(r, event) ==
    /\ windowsDone[r] > 0
    /\ event.eventName \in Whitelist
    /\ lastSyncedBlock[r] < event.blockNumber
    /\ event.blockNumber < fromBlock[r]

\* a whitelisted event at or below the stored cursor
PastCursor(event) == event.eventName \in Whitelist /\ event.blockNumber <= cursor

WasDropped(event) == event.transactionHash \in dropped

\* the step writes the cursor for the window of r, all events of the window
\* satisfying P
CursorWrittenAfter(r, P(_)) ==
    /\ pc[r] = "updateLastSyncedBlock"
    /\ events[r] = <<>>
    /\ cursor' = toBlock[r]
    /\ \A event \in ChainLogs :
          (InWindow(r, event) /\ event.eventName \in Whitelist) => P(event)

HandledOrDropped(event) == HasRow(event) \/ WasDropped(event)

\* C7 as stated: the cursor moves to a window's toBlock only once every
\* event of the window has its row, so every whitelisted event at or below
\* the cursor has been projected.
C7_CursorImpliesProjected ==
    /\ [](\A event \in ChainLogs : PastCursor(event) => HasRow(event))
    /\ [][cursor' # cursor => \E r \in Runners : CursorWrittenAfter(r, HasRow)]_vars

\* C7 amended: the cursor moves to a window's toBlock only once the handler
\* of every event of the window has returned, so every whitelisted event at
\* or below the cursor has its row or was dropped by its handler
\* (read-through failed, or no auction matched the bid).
C7_CursorImpliesHandled ==
    /\ [](\A event \in ChainLogs : PastCursor(event) => HandledOrDropped(event))
    /\ [][cursor' # cursor => \E r \in Runners : CursorWrittenAfter(r, HandledOrDropped)]_vars

\* the cursor stands past an event that was dropped and has no row
C7_Witness ==
    \E r \in Runners : \E event \in ChainLogs :
        /\ Committed(r, event)
        /\ WasDropped(event)
        /\ ~HasRow(event)
        /\ cursor >= event.blockNumber

----------------------------------------------------------------------------
(* C8 *)

\* C8: two overlapping runs over the same windows, their writes interleaved,
\* leave the tables of a single run over those windows.
C8_OverlapEqualsSingleRun ==
    (/\ AllIdle
     /\ \A r \in Runners : outcome[r] = "done"
     /\ lastSyncedBlock["scheduled"] = lastSyncedBlock["manual"]
     /\ currentBlock["scheduled"] = currentBlock["manual"]
     /\ dropped = {})
    => StoreEquals(UninterruptedRun(currentBlock["scheduled"]))

----------------------------------------------------------------------------
(* C9 *)

\* the end of the last window a run committed, from its bounds
LastCommittedEnd(q) ==
    IF windowsDone[q] = 0 THEN lastSyncedBlock[q]
    ELSE Min(lastSyncedBlock[q] + windowsDone[q] * batchSize, currentBlock[q])

FailedInWindow(q) == pc[q] = "idle" /\ outcome[q] = "failed" /\ fromBlock[q] # 0

InFirstWindow(r) ==
    /\ pc[r] \in {"getContractEvents", "processEvent", "updateLastSyncedBlock"}
    /\ windowsDone[r] = 0

\* C9: a run that fails in window k writes the cursor no more: the cursor
\* is the toBlock of window k-1 (the value at run start for the first
\* window), the events of the committed windows keep their rows, and the
\* next run starts its first window at the first block of the failed one.
C9_FailedWindowRetried ==
    \A q \in Runners : FailedInWindow(q) =>
        /\ started[q] = runs =>
              /\ cursor = LastCommittedEnd(q)
              /\ fromBlock[q] = cursor + 1
              /\ \A event \in ChainLogs :
                    event.blockNumber <= cursor => HandledOrDropped(event)
        /\ \A r \in Runners :
              (started[r] = started[q] + 1 /\ InFirstWindow(r)) => fromBlock[r] = fromBlock[q]

\* a run failed in its second window and the next run is in its first window
C9_Witness ==
    \E q, r \in Runners :
        /\ FailedInWindow(q)
        /\ windowsDone[q] = 1
        /\ started[r] = started[q] + 1
        /\ InFirstWindow(r)
        /\ fromBlock[r] = batchSize + 1
        /\ auctions # <<>>

----------------------------------------------------------------------------
(* C10 *)

WindowsBetween(lo, hi) == IF hi <= lo THEN 0 ELSE (hi - lo + batchSize - 1) \div batchSize

RunEnded(r) == pc[r] = "idle" /\ outcome[r] = "done"

\* C10: a run reads the chain head once and iterates windows up to that
\* snapshot: when every outbound call returns it ends, after the windows
\* between its start cursor and the snapshot, with the cursor at the
\* snapshot, also when the head advances during the run.
C10_RunConverges ==
    /\ [](RunEnded("scheduled") =>
            /\ cursor = currentBlock["scheduled"]
            /\ windowsDone["scheduled"] =
                  WindowsBetween(lastSyncedBlock["scheduled"], currentBlock["scheduled"]))
    /\ (pc["scheduled"] # "idle") ~> RunEnded("scheduled")

\* a run of two windows has ended at its snapshot, below the chain head
C10_Witness ==
    /\ RunEnded("scheduled")
    /\ windowsDone["scheduled"] >= 2
    /\ cursor = currentBlock["scheduled"]
    /\ head > currentBlock["scheduled"]

----------------------------------------------------------------------------
(* C11 *)

\* r handles an auction-start event and the read-through fails
DropsStart(r) ==
    /\ pc[r] = "processEvent"
    /\ events'[r] # events[r]
    /\ Head(events[r]).eventName = "AuctionStarted"
    /\ Head(events[r]).transactionHash \in dropped' \ dropped

\* every column of the row is set, from an auction-start log of the chain
CompleteAuctionRow(row) ==
    \E event \in ChainLogs :
        /\ event.eventName = "AuctionStarted"
        /\ row.cast_hash = formatCastHash(event.castHash)
        /\ row.creator_fid = event.fid
        /\ row.transaction_hash = event.transactionHash
        /\ row.block_number = event.blockNumber

\* C11: when the read-through for an auction-start event fails, the step
\* creates and modifies no row (no table holds a partial row), and the run
\* goes on with the next event of the window or with the cursor update.
C11_FailedReadThroughDropsEvent ==
    /\ [](\A i \in 1..Len(auctions) : CompleteAuctionRow(auctions[i]))
    /\ [][\A r \in Runners : DropsStart(r) =>
             /\ auctions' = auctions
             /\ bids' = bids
             /\ cursor' = cursor
             /\ events'[r] = Tail(events[r])
             /\ outcome'[r] = "running"
             /\ pc'[r] = IF events'[r] = <<>> THEN "updateLastSyncedBlock" ELSE "processEvent"]_vars

\* one run dropped the start event of block 1 and went on to insert the
\* auction of the start event of block 2
C11_Witness ==
    /\ runs = 1
    /\ \E e1, e2 \in ChainLogs :
          /\ e1.eventName = "AuctionStarted"
          /\ e2.eventName = "AuctionStarted"
          /\ e2.blockNumber = e1.blockNumber + 1
          /\ WasDropped(e1)
          /\ \A i \in 1..Len(auctions) : auctions[i].transaction_hash # e1.transactionHash
          /\ \E i \in 1..Len(auctions) : auctions[i].transaction_hash = e2.transactionHash

----------------------------------------------------------------------------
(* C12 *)

\* r handles a bid event
HandlesBid(r) ==
    /\ pc[r] = "processEvent"
    /\ events'[r] # events[r]
    /\ Head(events[r]).eventName = "BidPlaced"

RunGoesOn(r) ==
    /\ events'[r] = Tail(events[r])
    /\ outcome'[r] = "running"
    /\ pc'[r] = IF events'[r] = <<>> THEN "updateLastSyncedBlock" ELSE "processEvent"

\* the bid row references an auction row of its content reference
ReferencesAuction(row) ==
    \E i \in 1..Len(auctions) :
        auctions[i].id = row.auction_id /\ auctions[i].cast_hash = row.cast_hash

\* C12: a bid event whose normalized content reference matches no auction
\* row adds no bid row and the run goes on; a bid event whose auction exists
\* adds one bid row with that auction's id; every bid row references an
\* existing auction.
C12_OrphanBidDropped ==
    /\ [](\A i \in 1..Len(bids) : ReferencesAuction(bids[i]))
    /\ [][\A r \in Runners : HandlesBid(r) =>
             LET event == Head(events[r])
                 ids == AuctionIdsOf(auctions, formatCastHash(event.castHash))
             IN /\ auctions' = auctions
                /\ cursor' = cursor
                /\ RunGoesOn(r)
                /\ ids = {} => bids' = bids
                /\ ids # {} =>
                      /\ Len(bids') = Len(bids) + 1
                      /\ SubSeq(bids', 1, Len(bids)) = bids
                      /\ bids'[Len(bids')].auction_id \in ids
                      /\ bids'[Len(bids')].transaction_hash = event.transactionHash]_vars

\* a bid on an auction whose start event was dropped has been handled: it has
\* no row and the cursor stands past it
C12_Witness ==
    \E event \in ChainLogs :
        /\ event.eventName = "BidPlaced"
        /\ WasDropped(event)
        /\ bids = <<>>
        /\ auctions = <<>>
        /\ cursor >= event.blockNumber

----------------------------------------------------------------------------
(* C13 *)

\* the settlement script handles the log at the head of its window
HandlesSettled == settle.pc = "process" /\ settle' # settle

Matches(row, event) == row.cast_hash = formatCastHash(event.castHash)

\* the row is Settled with the winner and the amount of the event
SettledBy(row, event) ==
    /\ row.state = 3
    /\ row.winner_address = event.winner
    /\ row.winner_fid = event.fid
    /\ row.winning_bid = event.amount

SameAuction(row, old) ==
    /\ row.id = old.id
    /\ row.cast_hash = old.cast_hash
    /\ row.creator_fid = old.creator_fid
    /\ row.transaction_hash = old.transaction_hash
    /\ row.block_number = old.block_number

\* C13: projecting a settlement event for an existing auction sets its
\* state to Settled (3) and its winner address, winner id and winning amount
\* from the event, and touches no other row nor column; projecting the same
\* event again leaves the store as it was, and so does a settlement for a
\* content reference without a row.
C13_SettlementProjection ==
    [][HandlesSettled =>
         LET event == Head(settle.logs) IN
         /\ Len(auctions') = Len(auctions)
         /\ bids' = bids
         /\ cursor' = cursor
         /\ \A i \in 1..Len(auctions) :
               /\ SameAuction(auctions'[i], auctions[i])
               /\ ~Matches(auctions[i], event) => auctions'[i] = auctions[i]
               /\ (Matches(auctions[i], event) /\ settle'.lastOk) => SettledBy(auctions'[i], event)
               /\ ~settle'.lastOk => auctions'[i] = auctions[i]
         /\ (\A i \in 1..Len(auctions) :
                Matches(auctions[i], event) => SettledBy(auctions[i], event))
               => auctions' = auctions]_vars

\* the script, run again, is about to handle the one settlement event of
\* the chain, which its first run projected: the auction is Settled with the
\* event's winner, beside an auction of another cast that is Active
C13_Witness ==
    /\ settle.runs = 2
    /\ settle.pc = "process"
    /\ Cardinality({i \in 1..Len(chain) : chain[i].eventName = "AuctionSettled"}) = 1
    /\ \E i, j \in 1..Len(auctions) :
          /\ Matches(auctions[i], Head(settle.logs))
          /\ SettledBy(auctions[i], Head(settle.logs))
          /\ ~Matches(auctions[j], Head(settle.logs))
          /\ auctions[j].state = 1

----------------------------------------------------------------------------
(* C14 *)

WinnerFieldsSet(row) ==
    /\ row.winner_address # NULL_ADDRESS
    /\ row.winner_fid # NULL
    /\ row.winning_bid # NULL

WinnerFieldsUnset(row) ==
    /\ row.winner_address = NULL_ADDRESS
    /\ row.winner_fid = NULL
    /\ row.winning_bid = NULL

\* C14: in every reachable store, each auction row either is Settled
\* (state 3) with its winner address, winner id and winning amount all set,
\* or is in another state with all three unset.
C14_WinnerIffSettled ==
    \A i \in 1..Len(auctions) :
        IF auctions[i].state = SettledState
        THEN WinnerFieldsSet(auctions[i])
        ELSE WinnerFieldsUnset(auctions[i])

\* a start, a bid and a settlement of one auction have been projected: the
\* auction is Settled with its winner fields set
C14_Witness ==
    /\ bids # <<>>
    /\ \E i \in 1..Len(auctions) :
          /\ auctions[i].state = SettledState
          /\ WinnerFieldsSet(auctions[i])
          /\ \E k \in 1..Len(bids) : bids[k].auction_id = auctions[i].id

----------------------------------------------------------------------------
(* C15 *)

\* Settled, Cancelled, Recovered
TerminalStates == {3, 4, 5}

\* C15: auction state never regresses, and a terminal auction is never
\* rewritten: in every step, a row whose state is Settled, Cancelled or
\* Recovered keeps its state and its winner address, winner id and winning
\* amount, whatever settlement event is projected for its content reference.
C15_TerminalNeverRewritten ==
    [][\A i \in 1..Len(auctions) :
          /\ i <= Len(auctions')
          /\ auctions'[i].state >= auctions[i].state
          /\ auctions[i].state \in TerminalStates =>
                /\ auctions'[i].state = auctions[i].state
                /\ auctions'[i].winner_address = auctions[i].winner_address
                /\ auctions'[i].winner_fid = auctions[i].winner_fid
                /\ auctions'[i].winning_bid = auctions[i].winning_bid]_vars

----------------------------------------------------------------------------
(* C16 *)

\* the two spellings denote one address, whatever the case of their letters
SameAddress(a, b) == a.account = b.account

Excluded(address) == SameAddress(address, ZERO_ADDRESS) \/ SameAddress(address, AUCTION_CONTRACT)

\* C16: the transfer classifier returns false exactly when the sender or
\* the receiver is, letter case aside, the zero address or the auction
\* contract address, and true for every other pair; the classifier of the
\* sync and the one of the backfill return the same boolean for every input.
C16_ClassifierExcludesExactly ==
    /\ call.sync \subseteq {~(Excluded(call.data.fromAddress) \/ Excluded(call.data.toAddress))}
    /\ call.backfill \subseteq {~(Excluded(call.data.fromAddress) \/ Excluded(call.data.toAddress))}
    /\ (call.sync # {} /\ call.backfill # {}) => call.sync = call.backfill

\* both classifiers have answered for a transfer from the auction contract,
\* its address written in upper case, to a user
C16_Witness ==
    /\ call.sync = {FALSE}
    /\ call.backfill = {FALSE}
    /\ call.data.fromAddress = [account |-> "auction", case |-> "upper"]
    /\ call.data.toAddress.account = "u1"

----------------------------------------------------------------------------
(* C17 *)

\* the transfer backfill handles the event at the head of its window
HandlesTransfer == nft.pc = "process" /\ nft' # nft

\* every row of tbl is a row of tbl2, at the same place and unchanged
KeepsRows(tbl, tbl2) ==
    /\ Len(tbl) <= Len(tbl2)
    /\ \A i \in 1..Len(tbl) : tbl2[i] = tbl[i]

----------------------------------------------------------------------------
(* C18 *)

\* 0x and twenty bytes of hex digits
IsBytes20(s) == startsWith0x(s) /\ StrLen(s) = 2 + Bytes20Chars

\* C18: normalising a content reference twice gives what normalising it
\* once gives, for hex strings of 20 and of 32 bytes with or without 0x;
\* the result is 0x and 20 bytes, and padding it with padCastHash and
\* normalising again gives it back.
C18_NormalizeIdempotent ==
    /\ \A h \in call.once : IsBytes20(h)
    /\ call.twice \subseteq call.once
    /\ \A p \in call.padded : startsWith0x(p) /\ StrLen(p) = 2 + Bytes32Chars
    /\ call.back \subseteq call.once

\* a 32-byte reference with 0x whose last 20 bytes start with zeros and
\* do not end with them was normalised, normalised again, padded and
\* normalised
C18_Witness ==
    /\ call.castHash = Cat(Prefix0x, Cat(Chars("0", 25), Chars("a", Bytes32Chars - 25)))
    /\ call.once = {Cat(Prefix0x, Cat(Chars("0", 1), Chars("a", Bytes20Chars - 1)))}
    /\ call.twice = call.once
    /\ call.padded = {call.castHash}
    /\ call.back = call.once

----------------------------------------------------------------------------
(* C19 *)

\* the leaderboard s lists its bidders by bid count, then by volume
Ranked(s) == \A i, j \in 1..Len(s) : i < j => OrderedBefore(s[i], s[j])

\* both leaderboards were asked for on one store, with one limit
BothAnswered == call # NoCall /\ call.allTime # {} /\ call.timeframe # {}

\* C19: in the all-time and in the time-windowed leaderboard a bidder
\* listed before another has more bids, or as many and at least the volume;
\* with period 'all-time' or a period the handler does not know, the
\* time-windowed leaderboard lists the same bidders in the same order as the
\* all-time leaderboard.
C19_LeaderboardOrder ==
    call # NoCall =>
        /\ \A s \in call.allTime \cup call.timeframe : Ranked(s)
        /\ (BothAnswered /\ call.period \in {"all-time", "year"})
              => call.timeframe = call.allTime

\* no other bidder has the bid count and the volume of this row
Untied(row) ==
    \A other \in TopBiddersRows :
        (other.total_bids = row.total_bids /\ other.total_volume = row.total_volume)
            => other = row

\* C19, as it holds: each leaderboard is ranked by bid count, then by
\* volume; with period 'all-time' or an unknown period the time-windowed
\* leaderboard has the length of the all-time one and, at every rank, a
\* bidder of the same bid count and volume, the same bidder unless another
\* one is equal to it in both.
C19_LeaderboardOrderUpToTies ==
    call # NoCall =>
        /\ \A s \in call.allTime \cup call.timeframe :
              \A i, j \in 1..Len(s) :
                 i < j => \/ s[i].total_bids > s[j].total_bids
                          \/ /\ s[i].total_bids = s[j].total_bids
                             /\ s[i].total_volume >= s[j].total_volume
        /\ (BothAnswered /\ call.period \in {"all-time", "year"})
              => \A s \in call.allTime : \A t \in call.timeframe :
                    /\ Len(s) = Len(t)
                    /\ \A i \in 1..Len(s) :
                          /\ s[i].total_bids = t[i].total_bids
                          /\ s[i].total_volume = t[i].total_volume
                          /\ Untied(s[i]) => s[i] = t[i]

\* both leaderboards were asked for with period 'all-time' on a store where
\* one bidder has more bids than the other, who has bid more: they list the
\* two in the same order
C19_Witness ==
    /\ BothAnswered
    /\ call.period = "all-time"
    /\ call.timeframe = call.allTime
    /\ \E s \in call.allTime :
          /\ Len(s) = 2
          /\ s[1].total_bids > s[2].total_bids
          /\ s[1].total_volume < s[2].total_volume

----------------------------------------------------------------------------
(* C20 *)

\* the steps of a ladder above x
StepsAbove(ladder, x) == {m \in Range(ladder) : m > x}

\* the steps of the volume ladder, in dollars, above a volume in millionths:
\* m * 1000000 > v.millions * 1000000 + v.units
DollarStepsAbove(v) ==
    {m \in Range(volumeMilestones) : m > v.millions \/ (m = v.millions /\ 0 > v.units)}

Least(S) == CHOOSE m \in S : \A n \in S : m <= n

VolumeOf(stats) ==
    IF stats.total_volume = NULL_NUMERIC THEN Numeric(0, 0) ELSE stats.total_volume

\* C20: getNextMilestone returns the smallest step of the bid ladder
\* strictly above the bid count; only when there is none, the smallest step
\* of the volume ladder strictly above the volume in dollars; and only when
\* both ladders are exhausted, the 'legendary' sentinel.
C20_NextMilestone ==
    \A r \in call.ret :
        LET bidSteps == StepsAbove(bidMilestones, call.stats.total_bids)
            volumeSteps == DollarStepsAbove(VolumeOf(call.stats))
        IN IF bidSteps # {}
           THEN r.type = "bids" /\ r.requirement = Least(bidSteps)
           ELSE IF volumeSteps # {}
           THEN r.type = "volume" /\ r.requirement = Least(volumeSteps)
           ELSE r.type = "legendary"

\* the bid ladder is exhausted at 1000 bids and the volume is a millionth
\* over 50 dollars: the milestone is 100 dollars
C20_Witness ==
    /\ call.stats.total_bids = 1000
    /\ call.stats.total_volume = Numeric(50, 1)
    /\ \E r \in call.ret : r.type = "volume" /\ r.requirement = 100

----------------------------------------------------------------------------
(* C21 *)

\* the criteria on which side one is strictly greater
PointsOfSideOne(s1, s2) ==
    Cardinality({k \in {"total_bids", "total_volume", "highest_bid"} : s1[k] > s2[k]})

\* C21: when both sides have statistics, three points are awarded, one per
\* criterion (bid count, volume, highest bid): side one takes a point only
\* where it is strictly greater, side two takes it otherwise, ties included;
\* the winner is the side with at least two points and the score is 3-0 or
\* 2-1.
C21_ThreePointsTieToSideTwo ==
    (call.called /\ call.user1Stats # {} /\ call.user2Stats # {}) =>
        \A s1 \in call.user1Stats : \A s2 \in call.user2Stats :
            LET p1 == PointsOfSideOne(s1, s2)
                p2 == 3 - p1
            IN /\ Cardinality(call.ret) = 1
               /\ \A r \in call.ret :
                     /\ r.fid = IF p1 >= 2 THEN s1.bidder_fid ELSE s2.bidder_fid
                     /\ r.score = IF p1 >= 2 THEN Score(p1, p2) ELSE Score(p2, p1)
                     /\ r.score \in {Score(3, 0), Score(2, 1)}

\* the two sides are equal in bid count and in highest bid and side one has
\* the larger volume: side two wins 2-1
C21_Witness ==
    /\ call.called
    /\ \E s1 \in call.user1Stats : \E s2 \in call.user2Stats :
          /\ s1.total_bids = s2.total_bids
          /\ s1.highest_bid = s2.highest_bid
          /\ s1.total_volume > s2.total_volume
    /\ call.ret = {[fid |-> 2, score |-> Score(2, 1)]}

----------------------------------------------------------------------------
(* C22 *)

\* b1 outbids b2: the same auction, b1 later and strictly larger, different
\* bidders, no bid of a third bidder strictly between them in time
Outbids(b1, b2) ==
    /\ b1.auction_id = b2.auction_id
    /\ b1.timestamp > b2.timestamp
    /\ b1.amount > b2.amount
    /\ b1.bidder_fid # b2.bidder_fid
    /\ ~\E b3 \in BidRows : /\ b3.auction_id = b1.auction_id
                            /\ b3.bidder_fid \notin {b1.bidder_fid, b2.bidder_fid}
                            /\ b3.timestamp > b2.timestamp
                            /\ b3.timestamp < b1.timestamp

OutbidPairs(winner, loser) ==
    {p \in BidRows \X BidRows :
        p[1].bidder_fid = winner /\ p[2].bidder_fid = loser /\ Outbids(p[1], p[2])}

Answered == call # NoCall /\ call.fn = "outbid-history"

\* C22: the rivalry queries count b1 as outbidding b2 exactly when both are
\* bids of one auction, b1 is later and strictly larger, they come from
\* different bidders and no bid of a third bidder lies strictly between
\* them in time: each bidder listed as outbid by the user is listed with the
\* number of such pairs, and so is each bidder listed as outbidding the
\* user; a bidder raising their own bid is never listed against themselves.
C22_OutbidRelation ==
    Answered =>
        /\ \A v \in RivalFids :
              LET listed == {i \in 1..Len(call.victims) : call.victims[i].victim_fid = v} IN
              IF OutbidPairs(call.fid, v) = {} THEN listed = {}
              ELSE \E i \in listed :
                      call.victims[i].times_outbid = Cardinality(OutbidPairs(call.fid, v))
        /\ \A r \in RivalFids :
              LET listed == {i \in 1..Len(call.rivals) : call.rivals[i].rival_fid = r} IN
              IF OutbidPairs(r, call.fid) = {} THEN listed = {}
              ELSE \E i \in listed :
                      call.rivals[i].times_been_outbid = Cardinality(OutbidPairs(r, call.fid))
        /\ \A i \in 1..Len(call.victims) : call.victims[i].victim_fid # call.fid
        /\ \A i \in 1..Len(call.rivals) : call.rivals[i].rival_fid # call.fid

----------------------------------------------------------------------------
(* C30 *)

\* outbid interactions between the target and a counterpart, both directions
CombinedCount(fid, k) ==
    Cardinality(OutbidPairs(fid, k)) + Cardinality(OutbidPairs(k, fid))

Counterparts(fid) == {k \in RivalFids \ {fid} : CombinedCount(fid, k) > 0}

\* C30: the biggest rival reported for a target is a bidder other than the
\* target whose combined count of outbid interactions with the target, in
\* both directions, is the highest among all counterparts, and it is null
\* exactly when the target has no outbid interaction.
C30_BiggestRival ==
    Answered =>
        /\ call.biggestRival = {} <=> Counterparts(call.fid) = {}
        /\ \A rival \in call.biggestRival :
              /\ rival.fid \in Counterparts(call.fid)
              /\ rival.totalInteractions = CombinedCount(call.fid, rival.fid)
              /\ \A k \in Counterparts(call.fid) :
                    CombinedCount(call.fid, rival.fid) >= CombinedCount(call.fid, k)

----------------------------------------------------------------------------
(* C23 *)

\* 100 * r / N to one decimal, in tenths
TopPercent(r, n) == toFixed1(r, n)

\* C23: the percentile of the simp level is 'Top (100*r/N)%' for the
\* bid-count rank r among N distinct bidders (rank 23 of 1234 gives
\* 'Top 1.9%'), and a better (smaller) rank never yields a larger 'Top X%'.
C23_TopPercentOfRank ==
    (call.fn = "percentile" /\ call.called) =>
        /\ call.ret \in TopPercent(call.bid_rank, call.totalSimps)
        /\ (call.bid_rank = 23 /\ call.totalSimps = 1234) => call.ret = 19
        /\ \A better \in BidRanks(call.totalSimps) :
              better < call.bid_rank =>
                 \A p \in percentile({[bid_rank |-> better]}, call.totalSimps) : p <= call.ret

----------------------------------------------------------------------------
(* C24 *)

\* an id made of decimal digits only
IsNumeric(s) == s # <<>> /\ \A i \in 1..Len(s) : s[i] \in DOMAIN Digits

BattleDone == call # NoCall /\ call.fn = "simp-battles" /\ call.pc = "done"

MissingSide(c) ==
    (Falsy(c.user1) /\ Falsy(c.fid1Param)) \/ (Falsy(c.user2) /\ Falsy(c.fid2Param))

\* the side is given by an id, and the id is not a number
NonNumericId(user, fidParam) ==
    Falsy(user) /\ \E s \in fidParam : ~IsNumeric(s)

\* C24: in the head-to-head endpoint both identities are resolved before a
\* stats query executes; a missing side or a non-numeric id gives 400, a
\* name the profile service does not resolve gives 404 (the first failing
\* side decides), and in each of these cases no stats query is issued and no
\* aggregate is returned.
C24_ResolvedBeforeStats ==
    /\ (call # NoCall /\ call.fn = "simp-battles" /\ call.queries > 0)
          => call.fid1 # {} /\ call.fid2 # {}
    /\ BattleDone =>
          /\ MissingSide(call) => call.status = 400
          /\ (~MissingSide(call) /\ NonNumericId(call.user1, call.fid1Param)) => call.status = 400
          /\ (Len(call.lookups) >= 1 /\ call.lookups[Len(call.lookups)] = "null") => call.status = 404
          /\ (/\ ~MissingSide(call)
              /\ call.fid1 # {}
              /\ NonNumericId(call.user2, call.fid2Param)) => call.status = 400
          /\ call.status # 200 => call.queries = 0 /\ call.winner = {}

----------------------------------------------------------------------------
(* C25 *)

EntersLoop(r) == pc[r] = "getBlockNumber" /\ pc'[r] = "getContractEvents"

FetchesWindow(r) == pc[r] = "getContractEvents" /\ pc'[r] \in {"processEvent", "updateLastSyncedBlock"}

CommitsWindow(r) == windowsDone'[r] = windowsDone[r] + 1

\* C25: in one run of the auction stream from cursor c with snapshot H > c
\* the windows are handled one after another: the first starts at c + 1,
\* each window [fromBlock, toBlock] spans at most 500 blocks and ends at or
\* below H, the next window starts at toBlock + 1 after the cursor update of
\* this one, and the run ends with the window that ends at H.
C25_WindowsPartition ==
    [][\A r \in Runners :
          /\ EntersLoop(r) =>
                /\ currentBlock'[r] > lastSyncedBlock[r]
                /\ fromBlock'[r] = lastSyncedBlock[r] + 1
          /\ FetchesWindow(r) =>
                /\ fromBlock'[r] = fromBlock[r]
                /\ fromBlock[r] <= toBlock'[r]
                /\ toBlock'[r] - fromBlock[r] + 1 <= 500
                /\ toBlock'[r] <= currentBlock[r]
          /\ CommitsWindow(r) =>
                /\ pc[r] = "updateLastSyncedBlock"
                /\ fromBlock'[r] = toBlock[r] + 1
                /\ toBlock'[r] = toBlock[r]
                /\ IF toBlock[r] = currentBlock[r]
                   THEN pc'[r] = "idle" /\ outcome'[r] = "done"
                   ELSE pc'[r] = "getContractEvents"]_vars

\* a run from cursor 0 is in its second and last window, shorter than the
\* first: [501, H]
C25_Witness ==
    \E r \in Runners :
        /\ pc[r] \in {"processEvent", "updateLastSyncedBlock"}
        /\ lastSyncedBlock[r] = 0
        /\ windowsDone[r] = 1
        /\ fromBlock[r] = 501
        /\ toBlock[r] = currentBlock[r]
        /\ toBlock[r] < fromBlock[r] + 499

----------------------------------------------------------------------------
(* C26 *)

\* the call has ended and none of its awaits threw
CallEndedOk ==
    /\ CallEnded
    /\ call.transfer = "returned"
    /\ outcome["scheduled"] = "done"

P2PTransferLogs ==
    {l \in ChainLogs : l.eventName = "Transfer" /\ ~Excluded(l.fromAddress) /\ ~Excluded(l.toAddress)}

\* C26: a call of syncEvents handles the transfer stream too: when the
\* transfer cursor is behind the chain head and no call fails, the run ends
\* with nft_sync_status.last_block_number at the head it read, hence at or
\* above the head at the start of the call, and with a row for every
\* peer-to-peer Transfer log up to there.
C26_TransferStreamSynced ==
    (CallEndedOk /\ call.nftCursor < call.head) =>
        /\ nftCursor >= call.head
        /\ \A l \in P2PTransferLogs :
              l.blockNumber <= call.head =>
                 \E i \in 1..Len(transfers) : transfers[i].transaction_hash = l.transactionHash

----------------------------------------------------------------------------
(* C29 *)

AuctionStreamFailed == outcome["scheduled"] = "failed" /\ started["scheduled"] = call.run

\* C29: a failure in a window of one stream aborts that stream only. When
\* the auction stream of a call failed, the transfer stream of the call has
\* still gone through its windows and advanced its cursor to the head; when
\* the transfer stream failed, the auction stream still ends with its cursor
\* at its snapshot; and the step in which a stream fails writes neither the
\* tables nor the cursor of the other stream.
C29_FailureIsolated ==
    /\ []((CallEnded /\ AuctionStreamFailed /\ call.transfer = "returned"
                     /\ call.nftCursor < call.head)
             => nftCursor >= call.head)
    /\ []((CallEnded /\ call.transfer = "failed" /\ call.cursor < call.head)
             => /\ outcome["scheduled"] = "done"
                /\ cursor = currentBlock["scheduled"]
                /\ cursor >= call.head)
    /\ [][/\ (outcome["scheduled"] # "failed" /\ outcome'["scheduled"] = "failed")
                => transfers' = transfers /\ nftCursor' = nftCursor
          /\ (call # NoCall /\ call.fn = "syncEvents" /\ call.transfer = "pending"
                            /\ call'.transfer = "failed")
                => auctions' = auctions /\ bids' = bids /\ cursor' = cursor]_vars

----------------------------------------------------------------------------
(* C27 *)

SettledLogs == {e \in ChainLogs : e.eventName = "AuctionSettled"}

\* the sync run is over and its cursor stands at or past the block of the log
SyncPassed(e) == pc["scheduled"] = "idle" /\ cursor >= e.blockNumber

BecomesSettled(i) ==
    /\ i <= Len(auctions) /\ i <= Len(auctions')
    /\ auctions[i].state # SettledState
    /\ auctions'[i].state = SettledState

\* C27: the sync run projects settlement events: once a run has passed the
\* block of an AuctionSettled log of an auction that was in the store, the
\* auction is Settled with its winner fields set; and an auction becomes
\* Settled in a step of the sync run only.
C27_SettlementProjectedBySync ==
    /\ [](\A e \in SettledLogs : \A i \in 1..Len(auctions) :
             (/\ auctions[i].cast_hash = formatCastHash(e.castHash)
              /\ auctions[i].block_number < e.blockNumber
              /\ SyncPassed(e))
                => auctions[i].state = SettledState /\ WinnerFieldsSet(auctions[i]))
    /\ [][\A i \in 1..Len(auctions) :
             BecomesSettled(i) => pc'["scheduled"] # pc["scheduled"] \/ events' # events]_vars

----------------------------------------------------------------------------
(* C28 *)

\* the logs the RPC delivers for the window, in its order
DeliveredLogs(lo, hi) == SelectLogs(chain, 1, lo, hi)

\* s holds the elements of t that decode, each once, in the order of t
DecodableInOrder(s, t) ==
    /\ Len(s) = Cardinality({i \in 1..Len(t) : Decodes(t[i])})
    /\ \A k \in 1..Len(s) : Decodes(s[k]) /\ \E i \in 1..Len(t) : t[i] = s[k]
    /\ \A k, m \in 1..Len(s) :
          k < m => \E i, j \in 1..Len(t) : i < j /\ t[i] = s[k] /\ t[j] = s[m]

\* C28: a log that fails to decode is dropped from the fetched batch and no
\* error is raised: the batch holds the other logs the RPC delivered for
\* the window in the same relative order and the run goes on; when the run
\* has ended the cursor stands at its snapshot and every log at or below it
\* that decodes has been handled.
C28_MalformedLogSkipped ==
    /\ [][\A r \in Runners : FetchesWindow(r) =>
             /\ DecodableInOrder(events'[r], DeliveredLogs(fromBlock[r], toBlock'[r]))
             /\ outcome'[r] = "running"]_vars
    /\ [](RunEnded("scheduled") =>
             /\ cursor = currentBlock["scheduled"]
             /\ \A event \in ChainLogs :
                   (PastCursor(event) /\ Decodes(event)) => HandledOrDropped(event))

\* one window held a malformed log in block 1 and an auction start in
\* block 2: the run has ended with the auction's row and the cursor at 2
C28_Witness ==
    /\ RunEnded("scheduled")
    /\ runs = 1
    /\ Len(chain) >= 2
    /\ ~Decodes(chain[1])
    /\ Decodes(chain[2]) /\ chain[2].eventName = "AuctionStarted"
    /\ \E i \in 1..Len(auctions) : auctions[i].transaction_hash = chain[2].transactionHash
    /\ cursor = 2

====
